---- MODULE Spec2Model ----
(***************************************************************************)
(* Token lifecycle of the dashboard backend: the auth router               *)
(* (backend/routes/auth.js) with its in-memory user list and refresh-token *)
(* registry, and the strict authentication middleware.                     *)
(*                                                                         *)
(* Time is the wall clock in whole seconds, as jsonwebtoken reads it       *)
(* (Math.floor(Date.now() / 1000)).  A signed token is modelled by the     *)
(* data that determines its string: the secret that signed it and its      *)
(* payload {id, email, role, iat, exp}.  Two tokens signed with the same   *)
(* secret over the same payload in the same second are the same string.    *)
(* The two secrets are taken to be set and different.                      *)
(*                                                                         *)
(* A handler that awaits (bcrypt.compare in login, bcrypt.hash in          *)
(* register) is two steps, with the handlers of other requests free to run *)
(* in between; a handler without await runs as one step (Node runs it to   *)
(* completion).                                                            *)
(*                                                                         *)
(* A user record keeps the fields the handlers decide on (id, email,       *)
(* password, role, google_id) and full_name; created_at and avatar_url are *)
(* written but never read by the handlers and are left out.                *)
(***************************************************************************)
EXTENDS Integers, Sequences, FiniteSets

\* ------------------------------------------------------------ bounds
MaxUsers == 4
MaxTicks == 1
MaxIssued == 2

\* ------------------------------------------------------------ constants
\* jwt.sign(..., { expiresIn: '15m' }) and '7d', in seconds
AccessTTL == 900
RefreshTTL == 604800
\* cookie maxAge, in milliseconds
AccessMaxAge == 15 * 60 * 1000
RefreshMaxAge == 7 * 24 * 60 * 60 * 1000

JWT_SECRET == "JWT_SECRET"
JWT_REFRESH_SECRET == "JWT_REFRESH_SECRET"

Clients == {1, 2}

\* the hash stored for the two seeded users; the source says it is 'demo123'
SeedHash == "$2a$10$AYh.miNYoHy.7xDMXVXqbOKWh62ZqVREmrg1tuR6Ho8B8obUHKb06"
\* JavaScript null in a user's password field
Null == "null"

\* request inputs ("" is a missing field)
Emails == {"admin@lumanagi.com", "new@lumanagi.com"}
Passwords == {"demo123", "Secret42"}
FullNames == {"New User"}
GoogleIdTokens == {"", "forged", "g-new", "g-new-unverified", "g-admin"}
TimeSteps == {1, AccessTTL, RefreshTTL}

VARIABLES
    users,          \* the user list, in insertion order
    refreshTokens,  \* the refresh-token registry
    now,            \* wall clock, in seconds
    ticks,          \* number of clock advances so far
    jar,            \* every token pair handed to a client so far
    pc,             \* per client: "idle", or the await its handler is suspended at
    req,            \* per client: the locals of its suspended handler
    resp,           \* the last response the server sent
    loggedOut,      \* refresh tokens presented in a completed logout
    opt,            \* the last optionalAuth call: request context and console
    authz,          \* the last authorization call: its inputs and its outcome
    waiting,        \* the requireOwnership calls suspended at their await, oldest first
    chain,          \* the last combineChecks call: the gates it ran and its outcome
    buckets,        \* the rate-limit store: per limiter and client key, a counter
    flights,        \* per client: its request inside a rate-limited route
    route           \* the last outcome of a rate-limited route

vars == <<users, refreshTokens, now, ticks, jar, pc, req, resp, loggedOut, opt, authz, waiting, chain, buckets, flights, route>>

\* ------------------------------------------------------------ tokens
NoToken == [sig |-> "none", id |-> "", email |-> "", role |-> "", iat |-> 0, exp |-> 0]
Garbage == [sig |-> "garbage", id |-> "", email |-> "", role |-> "", iat |-> 0, exp |-> 0]

\* jwt.sign(payload, secret, {expiresIn}): iat is the current second
Sign(payload, secret, ttl) ==
    [sig |-> secret, id |-> payload.id, email |-> payload.email, role |-> payload.role,
     iat |-> now, exp |-> now + ttl]

\* jwt.verify(token, secret): structure, then signature, then expiry
\* (expired when the current second has reached exp; no clock tolerance)
Verify(token, secret) ==
    IF token.sig \notin {JWT_SECRET, JWT_REFRESH_SECRET} THEN "JsonWebTokenError"
    ELSE IF token.sig # secret THEN "JsonWebTokenError"
    ELSE IF now >= token.exp THEN "TokenExpiredError"
    ELSE "ok"

Decoded(token) == [id |-> token.id, email |-> token.email, role |-> token.role]
NoIdentity == [id |-> "", email |-> "", role |-> ""]

generateTokens(user) ==
    LET payload == [id |-> user.id, email |-> user.email, role |-> user.role]
    IN  [accessToken |-> Sign(payload, JWT_SECRET, AccessTTL),
         refreshToken |-> Sign(payload, JWT_REFRESH_SECRET, RefreshTTL)]

\* ------------------------------------------------------------ cookies
NODE_ENV == "development"
COOKIE_OPTIONS ==
    [httpOnly |-> TRUE, secure |-> (NODE_ENV = "production"), sameSite |-> "strict", path |-> "/"]

Cookie(name, value, maxAge) ==
    [name |-> name, value |-> value, httpOnly |-> COOKIE_OPTIONS.httpOnly,
     secure |-> COOKIE_OPTIONS.secure, sameSite |-> COOKIE_OPTIONS.sameSite,
     path |-> COOKIE_OPTIONS.path, maxAge |-> maxAge]

setAuthCookies(accessToken, refreshToken) ==
    {Cookie("accessToken", accessToken, AccessMaxAge),
     Cookie("refreshToken", refreshToken, RefreshMaxAge)}

ClearedCookie(name) ==
    [name |-> name, httpOnly |-> COOKIE_OPTIONS.httpOnly, secure |-> COOKIE_OPTIONS.secure,
     sameSite |-> COOKIE_OPTIONS.sameSite, path |-> COOKIE_OPTIONS.path]

clearAuthCookies == {ClearedCookie("accessToken"), ClearedCookie("refreshToken")}

\* ------------------------------------------------------------ users
\* (n).toString() for the ids the list can reach
IdStr(n) == <<"1", "2", "3", "4", "5", "6", "7", "8", "9">>[n]

SeedUsers ==
    << [id |-> "1", email |-> "admin@lumanagi.com", password |-> SeedHash,
        full_name |-> "Admin User", role |-> "admin", google_id |-> ""],
       [id |-> "2", email |-> "user@lumanagi.com", password |-> SeedHash,
        full_name |-> "Regular User", role |-> "user", google_id |-> ""] >>

\* users.find(u => u.email === email): index of the first match, 0 when none
FindByEmail(email) ==
    IF \E i \in 1..Len(users) : users[i].email = email
    THEN CHOOSE i \in 1..Len(users) :
            /\ users[i].email = email
            /\ \A j \in 1..(i - 1) : users[j].email # email
    ELSE 0

\* users.find(u => u.id === id)
FindById(id) ==
    IF \E i \in 1..Len(users) : users[i].id = id
    THEN CHOOSE i \in 1..Len(users) :
            /\ users[i].id = id
            /\ \A j \in 1..(i - 1) : users[j].id # id
    ELSE 0

\* bcrypt.hash(password, 10); the salt is left out, compare does not depend on it
Hash(password) ==
    IF password = "demo123" THEN SeedHash ELSE "$2a$10$hash-of-Secret42"

\* bcrypt.compare(password, hash): rejects when the hash is not a string
Compare(password, hash) ==
    IF hash = Null THEN "throw"
    ELSE IF hash = Hash(password) THEN "true"
    ELSE "false"


\* googleClient.verifyIdToken + ticket.getPayload(): the verified identity of an
\* id token, or "throw" when the provider rejects it
GooglePayload(idToken) ==
    CASE idToken = "g-new" ->
            [ok |-> TRUE, sub |-> "google-new", email |-> "new@lumanagi.com",
             name |-> "New User", email_verified |-> TRUE]
      [] idToken = "g-new-unverified" ->
            [ok |-> TRUE, sub |-> "google-new", email |-> "new@lumanagi.com",
             name |-> "New User", email_verified |-> FALSE]
      [] idToken = "g-admin" ->
            [ok |-> TRUE, sub |-> "google-admin", email |-> "admin@lumanagi.com",
             name |-> "Admin User", email_verified |-> TRUE]
      [] OTHER ->
            [ok |-> FALSE, sub |-> "", email |-> "", name |-> "", email_verified |-> FALSE]

\* ------------------------------------------------------------ responses
NoReq == [email |-> "", password |-> "", full_name |-> "", user |-> 0, idToken |-> ""]

Response(client, op, status, error, presented, cookies, cleared, user, next) ==
    [client |-> client, op |-> op, status |-> status, error |-> error,
     presented |-> presented, cookies |-> cookies, cleared |-> cleared,
     user |-> user, next |-> next]

NoResponse == Response(0, "none", 0, "", NoToken, {}, {}, NoIdentity, FALSE)

\* res.status(s).json({error}) with no cookie touched
Fail(client, op, status, error) ==
    Response(client, op, status, error, NoToken, {}, {}, NoIdentity, FALSE)

\* the { password: _, ...userWithoutPassword } body, reduced to the claim fields
Body(user) == [id |-> user.id, email |-> user.email, role |-> user.role]

Registers == Cardinality({c \in Clients : pc[c] = "register"})

\* the model stops handing out token pairs once MaxIssued different ones exist
MayIssue(tokens) == tokens \in jar \/ Cardinality(jar) < MaxIssued

\* a JavaScript value that is a string or an array of strings; a missing value
\* (an absent payload field, a gate without argument) has no items
Str(s) == [array |-> FALSE, items |-> <<s>>]
List(q) == [array |-> TRUE, items |-> q]
NoValue == [array |-> FALSE, items |-> <<>>]

\* the request context and the console after one optionalAuth call
Optional(client, presented, user, nextCalls, warned) ==
    [client |-> client, presented |-> presented, user |-> user,
     nextCalls |-> nextCalls, warned |-> warned]

NoWarning == <<>>
NoOptional == Optional(0, NoToken, NoIdentity, 0, NoWarning)

\* one call of an authorization gate or registry function: what went in
\* (gate argument, req.user, req.method, the ownership predicate's outcome) and
\* what came out (the response if one was sent, calls of next and of the
\* predicate, a returned value, an exception escaping the function)
Call(gate, arg, user, method, owner, status, error, message, required, nextCalls, ownershipCalls, result) ==
    [gate |-> gate, arg |-> arg, user |-> user, method |-> method, owner |-> owner,
     status |-> status, error |-> error, message |-> message, required |-> required,
     nextCalls |-> nextCalls, ownershipCalls |-> ownershipCalls, result |-> result]

NoCall == Call("none", NoValue, NoIdentity, "", "", 0, "", "", NoValue, 0, 0, "")

\* one call of combineChecks: the configured gates, the request, the gate calls
\* made in order, the response the request got, calls of the downstream next
Combined(checks, user, method, owner, index, calls, status, message, required, nextCalls, result) ==
    [checks |-> checks, user |-> user, method |-> method, owner |-> owner,
     index |-> index, calls |-> calls, status |-> status, message |-> message,
     required |-> required, nextCalls |-> nextCalls, result |-> result]

NoCombined == Combined(<<>>, NoIdentity, "", "", 0, <<>>, 0, "", NoValue, 0, "none")

\* the store of express-rate-limit before any request: no key has a counter
NoBuckets == [k \in {} |-> 0]

\* the origin of a request: the connection address (req.ip) and the entries of
\* its X-Forwarded-For header split at the commas, <<>> when the header is absent
Origin(ip, forwarded) == [ip |-> ip, forwarded |-> forwarded]

NoOrigin == Origin("", <<>>)

\* a request admitted by a rate limiter whose handler is pending: the limiter
\* and key it was counted under and the resetTime of the window that counted it
Flight(stage, tier, key, window) ==
    [stage |-> stage, tier |-> tier, key |-> key, window |-> window]

NoFlight == Flight("idle", "", "", 0)

\* what a rate-limited route did with the last request it received: the limiter
\* and the key it counted the request under, the totalHits the increment
\* returned, whether the limiter answered 429, and for an entity route the
\* identity attached by authenticateToken, the final status and whether the
\* business handler ran; arrivedBefore, failedBefore, pendingBefore and
\* staleBefore are what the key's window had seen when the request arrived
Routed(serial, tier, key, origin, presented, entity, method, user, totalHits, limited, status, handler, arrivedBefore, failedBefore, pendingBefore, staleBefore, matching) ==
    [serial |-> serial, tier |-> tier, key |-> key, origin |-> origin,
     presented |-> presented, entity |-> entity, method |-> method, user |-> user,
     totalHits |-> totalHits, limited |-> limited, status |-> status,
     handler |-> handler, arrivedBefore |-> arrivedBefore,
     failedBefore |-> failedBefore, pendingBefore |-> pendingBefore,
     staleBefore |-> staleBefore, matching |-> matching]

NoRoute == Routed(0, "", "", NoOrigin, NoToken, "", "", NoIdentity, 0, FALSE, 0, FALSE, 0, 0, 0, 0, FALSE)

Init ==
    /\ opt = NoOptional
    /\ authz = NoCall
    /\ waiting = <<>>
    /\ chain = NoCombined
    /\ buckets = NoBuckets
    /\ flights = [c \in Clients |-> NoFlight]
    /\ route = NoRoute
    /\ users = SeedUsers
    /\ refreshTokens = {}
    /\ now = 0
    /\ ticks = 0
    /\ jar = {}
    /\ pc = [c \in Clients |-> "idle"]
    /\ req = [c \in Clients |-> NoReq]
    /\ resp = NoResponse
    /\ loggedOut = {}

\* ------------------------------------------------------------ POST /login
\* lines 77-90: validation, users.find, then the handler awaits bcrypt.compare
LoginReceive(c, email, password) ==
    /\ pc[c] = "idle"
    /\ IF email = "" \/ password = ""
       THEN /\ resp' = Fail(c, "login", 400, "Email and password are required")
            /\ UNCHANGED <<pc, req>>
       ELSE IF FindByEmail(email) = 0
       THEN /\ resp' = Fail(c, "login", 401, "Invalid credentials")
            /\ UNCHANGED <<pc, req>>
       ELSE /\ pc' = [pc EXCEPT ![c] = "login"]
            /\ req' = [req EXCEPT ![c] = [email |-> email, password |-> password,
                                          full_name |-> "", user |-> FindByEmail(email),
                                          idToken |-> ""]]
            /\ UNCHANGED resp
    /\ UNCHANGED <<users, refreshTokens, now, ticks, jar, loggedOut, opt, authz, waiting, chain>>

\* POST /login reached without a rate limiter in front of it
LoginStart(c, email, password) ==
    /\ LoginReceive(c, email, password)
    /\ UNCHANGED <<buckets, flights, route>>

\* the pair (email, password) is the email and password of some stored user record
Matches(email, password) ==
    \E i \in 1..Len(users) :
        users[i].email = email /\ Compare(password, users[i].password) = "true"

\* the outcome of `await bcrypt.compare(password, user.password)`
PasswordCheck(password, user) == Compare(password, user.password)

\* lines 90-112: after the await
LoginResume(c) ==
    /\ pc[c] = "login"
    /\ LET user == users[req[c].user]
           check == PasswordCheck(req[c].password, user)
           tokens == generateTokens(user)
       IN  IF check = "throw"
           THEN /\ resp' = Fail(c, "login", 500, "Login failed")
                /\ UNCHANGED <<refreshTokens, jar>>
           ELSE IF check = "false"
           THEN /\ resp' = Fail(c, "login", 401, "Invalid credentials")
                /\ UNCHANGED <<refreshTokens, jar>>
           ELSE /\ MayIssue(tokens)
                /\ refreshTokens' = refreshTokens \cup {tokens.refreshToken}
                /\ jar' = jar \cup {tokens}
                /\ resp' = Response(c, "login", 200, "", NoToken,
                                    setAuthCookies(tokens.accessToken, tokens.refreshToken),
                                    {}, Body(user), FALSE)
    /\ pc' = [pc EXCEPT ![c] = "idle"]
    /\ req' = [req EXCEPT ![c] = NoReq]
    /\ UNCHANGED <<users, now, ticks, loggedOut, opt, authz, waiting, chain>>

\* the pending login of a route without a rate limiter
LoginFinish(c) ==
    /\ flights[c].stage = "idle"
    /\ LoginResume(c)
    /\ UNCHANGED <<buckets, flights, route>>

\* ------------------------------------------------------------ POST /register
\* a register handler without the duplicate check
EmailTakenNever(email) ==
    FALSE

\* lines 125-126: users.find(u => u.email === email) found a record
EmailTaken(email) ==
    FindByEmail(email) # 0

\* lines 118-131: validation, the duplicate check, then the handler awaits bcrypt.hash
RegisterReceive(c, email, password, full_name) ==
    /\ pc[c] = "idle"
    /\ IF email = "" \/ password = "" \/ full_name = ""
       THEN /\ resp' = Fail(c, "register", 400, "Email, password, and full name are required")
            /\ UNCHANGED <<pc, req>>
       ELSE IF EmailTaken(email)
       THEN /\ resp' = Fail(c, "register", 409, "User already exists")
            /\ UNCHANGED <<pc, req>>
       ELSE /\ Len(users) + Registers < MaxUsers
            /\ pc' = [pc EXCEPT ![c] = "register"]
            /\ req' = [req EXCEPT ![c] = [email |-> email, password |-> password,
                                          full_name |-> full_name, user |-> 0,
                                          idToken |-> ""]]
            /\ UNCHANGED resp
    /\ UNCHANGED <<users, refreshTokens, now, ticks, jar, loggedOut, opt, authz, waiting, chain>>

\* POST /register reached without a rate limiter in front of it
RegisterStart(c, email, password, full_name) ==
    /\ RegisterReceive(c, email, password, full_name)
    /\ UNCHANGED <<buckets, flights, route>>

\* a registration that stores a role outside the enumeration
NewUserAsMember(email, hashedPassword, full_name) ==
    [id |-> IdStr(Len(users) + 1), email |-> email, password |-> hashedPassword,
     full_name |-> full_name, role |-> "member", google_id |-> ""]

\* lines 134-141
NewUser(email, hashedPassword, full_name) ==
    [id |-> IdStr(Len(users) + 1), email |-> email, password |-> hashedPassword,
     full_name |-> full_name, role |-> "user", google_id |-> ""]

\* lines 133-158: after the await
RegisterResume(c) ==
    /\ pc[c] = "register"
    /\ LET newUser == NewUser(req[c].email, Hash(req[c].password), req[c].full_name)
           tokens == generateTokens(newUser)
       IN  /\ MayIssue(tokens)
           /\ users' = Append(users, newUser)
           /\ refreshTokens' = refreshTokens \cup {tokens.refreshToken}
           /\ jar' = jar \cup {tokens}
           /\ resp' = Response(c, "register", 201, "", NoToken,
                               setAuthCookies(tokens.accessToken, tokens.refreshToken),
                               {}, Body(newUser), FALSE)
    /\ pc' = [pc EXCEPT ![c] = "idle"]
    /\ req' = [req EXCEPT ![c] = NoReq]
    /\ UNCHANGED <<now, ticks, loggedOut, opt, authz, waiting, chain>>

\* the pending registration of a route without a rate limiter
RegisterFinish(c) ==
    /\ flights[c].stage = "idle"
    /\ RegisterResume(c)
    /\ UNCHANGED <<buckets, flights, route>>

\* ------------------------------------------------------------ POST /refresh
\* what a client can put in a cookie: nothing, a malformed string, or a token it
\* was handed (a refresh token, or an access token in the wrong cookie)
RefreshCookies ==
    {NoToken, Garbage} \cup {t.refreshToken : t \in jar} \cup {t.accessToken : t \in jar}
AccessCookies ==
    {NoToken, Garbage} \cup {t.accessToken : t \in jar} \cup {t.refreshToken : t \in jar}

\* a refresh handler that tests only for the cookie, not for registry membership
RefreshRejectedCookieOnly(refreshToken) ==
    refreshToken = NoToken

\* line 170: !refreshToken || !refreshTokens.has(refreshToken)
RefreshRejected(refreshToken) ==
    refreshToken = NoToken \/ refreshToken \notin refreshTokens

\* lines 189-190: refreshTokens.delete(refreshToken); refreshTokens.add(newRefreshToken)
Rotate(refreshToken, newRefreshToken) ==
    (refreshTokens \ {refreshToken}) \cup {newRefreshToken}

\* a failure path that forgets clearAuthCookies
RefreshFailureNoClear(c, refreshToken, error) ==
    Response(c, "refresh", 401, error, refreshToken, {}, {}, NoIdentity, FALSE)

\* lines 171-172, 181-182, 200-201: clearAuthCookies(res); res.status(401)
RefreshFailure(c, refreshToken, error) ==
    Response(c, "refresh", 401, error, refreshToken, {}, clearAuthCookies, NoIdentity, FALSE)

\* lines 166-203; the handler has no await
Refresh(c, refreshToken) ==
    /\ refreshToken \in RefreshCookies
    /\ IF RefreshRejected(refreshToken)
       THEN /\ resp' = RefreshFailure(c, refreshToken, "Invalid refresh token")
            /\ UNCHANGED <<refreshTokens, jar>>
       ELSE IF Verify(refreshToken, JWT_REFRESH_SECRET) # "ok"
       THEN \* jwt.verify throws, the catch block answers
            /\ resp' = RefreshFailure(c, refreshToken, "Invalid refresh token")
            /\ UNCHANGED <<refreshTokens, jar>>
       ELSE IF FindById(Decoded(refreshToken).id) = 0
       THEN /\ resp' = RefreshFailure(c, refreshToken, "User not found")
            /\ UNCHANGED <<refreshTokens, jar>>
       ELSE LET user == users[FindById(Decoded(refreshToken).id)]
                tokens == generateTokens(user)
            IN  /\ MayIssue(tokens)
                /\ refreshTokens' = Rotate(refreshToken, tokens.refreshToken)
                /\ jar' = jar \cup {tokens}
                /\ resp' = Response(c, "refresh", 200, "", refreshToken,
                                    setAuthCookies(tokens.accessToken, tokens.refreshToken),
                                    {}, NoIdentity, FALSE)
    /\ UNCHANGED <<users, now, ticks, pc, req, loggedOut, opt, authz, waiting, chain, buckets, flights, route>>

\* ------------------------------------------------------------ POST /logout
\* lines 210-212: if (refreshToken) refreshTokens.delete(refreshToken)
Revoke(refreshToken) ==
    IF refreshToken # NoToken THEN refreshTokens \ {refreshToken} ELSE refreshTokens

\* a logout that reports an unknown refresh token as an error
LogoutResponseStrict(c, refreshToken) ==
    IF refreshToken # NoToken /\ refreshToken \notin refreshTokens
    THEN Response(c, "logout", 500, "Logout failed", refreshToken, {}, clearAuthCookies,
                  NoIdentity, FALSE)
    ELSE Response(c, "logout", 200, "", refreshToken, {}, clearAuthCookies, NoIdentity, FALSE)

\* lines 215-217: clearAuthCookies(res); res.json({message})
LogoutResponse(c, refreshToken) ==
    Response(c, "logout", 200, "", refreshToken, {}, clearAuthCookies, NoIdentity, FALSE)

\* lines 206-223; Set.delete does not throw, so the catch block is not entered
Logout(c, refreshToken) ==
    /\ refreshToken \in RefreshCookies
    /\ refreshTokens' = Revoke(refreshToken)
    /\ resp' = LogoutResponse(c, refreshToken)
    /\ loggedOut' = IF refreshToken.sig = JWT_REFRESH_SECRET
                    THEN loggedOut \cup {refreshToken} ELSE loggedOut
    /\ UNCHANGED <<users, now, ticks, jar, pc, req, opt, authz, waiting, chain, buckets, flights, route>>

\* ------------------------------------------------------------ POST /google
\* lines 258-268
GoogleUser(payload) ==
    [id |-> IdStr(Len(users) + 1), email |-> payload.email, password |-> Null,
     full_name |-> payload.name, role |-> "user", google_id |-> payload.sub]

\* lines 272-275: link the Google account when none is linked yet
Linked(user, payload) ==
    IF user.google_id = "" THEN [user EXCEPT !.google_id = payload.sub] ELSE user

\* lines 226-238: the idToken of the body is required, then the handler awaits
\* googleClient.verifyIdToken and other requests run in the meantime
GoogleStart(c, idToken) ==
    /\ pc[c] = "idle"
    /\ flights[c].stage = "idle"
    /\ IF idToken = ""
       THEN /\ resp' = Fail(c, "google", 400, "Google ID token is required")
            /\ UNCHANGED <<pc, req>>
       ELSE /\ pc' = [pc EXCEPT ![c] = "google"]
            /\ req' = [req EXCEPT ![c] = [NoReq EXCEPT !.idToken = idToken]]
            /\ UNCHANGED resp
    /\ UNCHANGED <<users, refreshTokens, now, ticks, jar, loggedOut, opt, authz, waiting, chain,
                   buckets, flights, route>>

\* lines 240-295: after the await, with the users and tokens of that moment
GoogleFinish(c) ==
    /\ pc[c] = "google"
    /\ LET payload == GooglePayload(req[c].idToken)
           found == FindByEmail(payload.email)
       IN  IF ~payload.ok
           THEN /\ resp' = Fail(c, "google", 401, "Google authentication failed")
                /\ UNCHANGED <<users, refreshTokens, jar>>
           ELSE IF ~payload.email_verified
           THEN /\ resp' = Fail(c, "google", 400, "Google email not verified")
                /\ UNCHANGED <<users, refreshTokens, jar>>
           ELSE LET user == IF found = 0 THEN GoogleUser(payload)
                                         ELSE Linked(users[found], payload)
                    tokens == generateTokens(user)
                IN  /\ found = 0 => Len(users) + Registers < MaxUsers
                    /\ MayIssue(tokens)
                    /\ users' = IF found = 0 THEN Append(users, user)
                                             ELSE [users EXCEPT ![found] = user]
                    /\ refreshTokens' = refreshTokens \cup {tokens.refreshToken}
                    /\ jar' = jar \cup {tokens}
                    /\ resp' = Response(c, "google", 200, "", NoToken,
                                        setAuthCookies(tokens.accessToken, tokens.refreshToken),
                                        {}, Body(user), FALSE)
    /\ pc' = [pc EXCEPT ![c] = "idle"]
    /\ req' = [req EXCEPT ![c] = NoReq]
    /\ UNCHANGED <<now, ticks, loggedOut, opt, authz, waiting, chain, buckets, flights, route>>

\* ------------------------------------------------------------ authenticateToken
\* an error handler that answers every verification error alike
AuthErrorGeneric(name) ==
    "Authentication failed"

\* part_000 lines 40-58: the 401 message for a verification error
AuthError(name) ==
    IF name = "TokenExpiredError" THEN "Access token expired"
    ELSE IF name = "JsonWebTokenError" THEN "Invalid access token"
    ELSE "Authentication failed"

\* an authentication that also asks for a live session in the registry
AccessAcceptedWithSession(accessToken) ==
    /\ Verify(accessToken, JWT_SECRET) = "ok"
    /\ \E t \in refreshTokens : t.id = accessToken.id /\ t.iat = accessToken.iat

\* part_000 line 34: jwt.verify(accessToken, process.env.JWT_SECRET) returns
AccessAccepted(accessToken) ==
    Verify(accessToken, JWT_SECRET) = "ok"

\* part_000 lines 22-60: strict authentication of one request
Authenticate(c, accessToken) ==
    /\ accessToken \in AccessCookies
    /\ resp' =
         IF accessToken = NoToken
         THEN Response(c, "auth", 401, "Access token required", accessToken, {}, {},
                       NoIdentity, FALSE)
         ELSE IF AccessAccepted(accessToken)
         THEN Response(c, "auth", 0, "", accessToken, {}, {}, Decoded(accessToken), TRUE)
         ELSE Response(c, "auth", 401, AuthError(Verify(accessToken, JWT_SECRET)),
                       accessToken, {}, {}, NoIdentity, FALSE)
    /\ UNCHANGED <<users, refreshTokens, now, ticks, jar, pc, req, loggedOut, opt, authz, waiting, chain, buckets, flights, route>>

\* ------------------------------------------------------------ optionalAuth
\* error.message of the exception jwt.verify throws
VerifyMessage(token, secret) ==
    IF token.sig \notin {JWT_SECRET, JWT_REFRESH_SECRET} THEN "jwt malformed"
    ELSE IF token.sig # secret THEN "invalid signature"
    ELSE "jwt expired"

\* an optional authentication that stays silent about a bad token
WarningNever(accessToken) ==
    NoWarning

\* part_000 line 84: console.warn('Optional auth token invalid:', error.message)
Warning(accessToken) ==
    <<"Optional auth token invalid:", VerifyMessage(accessToken, JWT_SECRET)>>

\* part_000 lines 71-88: optional authentication of one request; it sends no
\* response, so resp is left alone
OptionalAuth(c, accessToken) ==
    /\ accessToken \in AccessCookies
    /\ opt' =
         IF accessToken = NoToken
         THEN Optional(c, accessToken, NoIdentity, 1, NoWarning)
         ELSE IF AccessAccepted(accessToken)
         THEN Optional(c, accessToken, Decoded(accessToken), 1, NoWarning)
         ELSE Optional(c, accessToken, NoIdentity, 1, Warning(accessToken))
    /\ UNCHANGED <<users, refreshTokens, now, ticks, jar, pc, req, resp, loggedOut, authz, waiting, chain, buckets, flights, route>>

\* ------------------------------------------------------------ the clock
Tick(d) ==
    /\ ticks < MaxTicks
    /\ now' = now + d
    /\ ticks' = ticks + 1
    /\ UNCHANGED <<users, refreshTokens, jar, pc, req, resp, loggedOut, opt, authz, waiting, chain, buckets, flights, route>>

\* ------------------------------------------------------------ roles and permissions
MaxList == 2

ROLES == [ADMIN |-> "admin", USER |-> "user", VIEWER |-> "viewer"]

PERMISSIONS ==
    [USERS_CREATE |-> "users:create", USERS_READ |-> "users:read",
     USERS_UPDATE |-> "users:update", USERS_DELETE |-> "users:delete",
     CONTRACTS_CREATE |-> "contracts:create", CONTRACTS_READ |-> "contracts:read",
     CONTRACTS_UPDATE |-> "contracts:update", CONTRACTS_DELETE |-> "contracts:delete",
     ORACLES_CREATE |-> "oracles:create", ORACLES_READ |-> "oracles:read",
     ORACLES_UPDATE |-> "oracles:update", ORACLES_DELETE |-> "oracles:delete",
     TOKENS_CREATE |-> "tokens:create", TOKENS_READ |-> "tokens:read",
     TOKENS_UPDATE |-> "tokens:update", TOKENS_DELETE |-> "tokens:delete",
     RISKS_CREATE |-> "risks:create", RISKS_READ |-> "risks:read",
     RISKS_UPDATE |-> "risks:update", RISKS_DELETE |-> "risks:delete",
     ALERTS_CREATE |-> "alerts:create", ALERTS_READ |-> "alerts:read",
     ALERTS_UPDATE |-> "alerts:update", ALERTS_DELETE |-> "alerts:delete",
     TREASURY_CREATE |-> "treasury:create", TREASURY_READ |-> "treasury:read",
     TREASURY_UPDATE |-> "treasury:update", TREASURY_DELETE |-> "treasury:delete",
     AI_LOGS_CREATE |-> "ai-logs:create", AI_LOGS_READ |-> "ai-logs:read",
     AI_LOGS_UPDATE |-> "ai-logs:update", AI_LOGS_DELETE |-> "ai-logs:delete",
     AUDIT_LOGS_READ |-> "audit-logs:read",
     SETTINGS_READ |-> "settings:read", SETTINGS_UPDATE |-> "settings:update"]

\* Object.values(o)
ObjectValues(o) == {o[k] : k \in DOMAIN o}

\* the names every plain object answers to through Object.prototype:
\* Object.getOwnPropertyNames(Object.prototype)
ObjectPrototypeKeys ==
    {"constructor", "toString", "__proto__", "valueOf", "hasOwnProperty",
     "isPrototypeOf", "toLocaleString", "propertyIsEnumerable",
     "__defineGetter__", "__defineSetter__", "__lookupGetter__", "__lookupSetter__"}

ROLE_PERMISSIONS ==
    [role \in ObjectValues(ROLES) |->
        CASE role = ROLES.ADMIN -> ObjectValues(PERMISSIONS)
          [] role = ROLES.USER ->
                {PERMISSIONS.CONTRACTS_CREATE, PERMISSIONS.CONTRACTS_READ,
                 PERMISSIONS.CONTRACTS_UPDATE,
                 PERMISSIONS.ORACLES_READ,
                 PERMISSIONS.TOKENS_READ,
                 PERMISSIONS.RISKS_CREATE, PERMISSIONS.RISKS_READ,
                 PERMISSIONS.RISKS_UPDATE,
                 PERMISSIONS.ALERTS_READ, PERMISSIONS.ALERTS_UPDATE,
                 PERMISSIONS.TREASURY_READ,
                 PERMISSIONS.AI_LOGS_CREATE, PERMISSIONS.AI_LOGS_READ,
                 PERMISSIONS.SETTINGS_READ}
          [] role = ROLES.VIEWER ->
                {PERMISSIONS.CONTRACTS_READ, PERMISSIONS.ORACLES_READ,
                 PERMISSIONS.TOKENS_READ, PERMISSIONS.RISKS_READ,
                 PERMISSIONS.ALERTS_READ, PERMISSIONS.TREASURY_READ,
                 PERMISSIONS.AI_LOGS_READ, PERMISSIONS.SETTINGS_READ}]

\* the four entries of one resource, in the order create, read, update, delete
Crud(c, r, u, d) == [create |-> c, read |-> r, update |-> u, delete |-> d]

RESOURCE_PERMISSIONS ==
    [resource \in {"contract-metrics", "oracle-feeds", "token-analytics",
                   "risk-assessments", "alerts", "treasury-operations",
                   "ai-action-logs", "audit-logs"} |->
        CASE resource = "contract-metrics" ->
                Crud(PERMISSIONS.CONTRACTS_CREATE, PERMISSIONS.CONTRACTS_READ,
                     PERMISSIONS.CONTRACTS_UPDATE, PERMISSIONS.CONTRACTS_DELETE)
          [] resource = "oracle-feeds" ->
                Crud(PERMISSIONS.ORACLES_CREATE, PERMISSIONS.ORACLES_READ,
                     PERMISSIONS.ORACLES_UPDATE, PERMISSIONS.ORACLES_DELETE)
          [] resource = "token-analytics" ->
                Crud(PERMISSIONS.TOKENS_CREATE, PERMISSIONS.TOKENS_READ,
                     PERMISSIONS.TOKENS_UPDATE, PERMISSIONS.TOKENS_DELETE)
          [] resource = "risk-assessments" ->
                Crud(PERMISSIONS.RISKS_CREATE, PERMISSIONS.RISKS_READ,
                     PERMISSIONS.RISKS_UPDATE, PERMISSIONS.RISKS_DELETE)
          [] resource = "alerts" ->
                Crud(PERMISSIONS.ALERTS_CREATE, PERMISSIONS.ALERTS_READ,
                     PERMISSIONS.ALERTS_UPDATE, PERMISSIONS.ALERTS_DELETE)
          [] resource = "treasury-operations" ->
                Crud(PERMISSIONS.TREASURY_CREATE, PERMISSIONS.TREASURY_READ,
                     PERMISSIONS.TREASURY_UPDATE, PERMISSIONS.TREASURY_DELETE)
          [] resource = "ai-action-logs" ->
                Crud(PERMISSIONS.AI_LOGS_CREATE, PERMISSIONS.AI_LOGS_READ,
                     PERMISSIONS.AI_LOGS_UPDATE, PERMISSIONS.AI_LOGS_DELETE)
          [] resource = "audit-logs" ->
                Crud(Null, PERMISSIONS.AUDIT_LOGS_READ, Null, Null)]

\* Object.create, what RESOURCE_PERMISSIONS['constructor']['create'] evaluates to
ObjectCreate == "[Function: create]"

\* lines 572-578.  ROLE_PERMISSIONS[role] is undefined for a name the object
\* does not answer to; for a name inherited from Object.prototype it is a
\* function or object, truthy and without a has method, and the call throws
hasPermission(role, permission) ==
    IF role \in DOMAIN ROLE_PERMISSIONS
    THEN IF permission \in ROLE_PERMISSIONS[role] THEN "true" ELSE "false"
    ELSE IF role \in ObjectPrototypeKeys THEN "throw"
    ELSE "false"

\* lines 597-603, for the actions create, read, update, delete and names that
\* no object answers to.  A resource that is not a key gives undefined, except
\* that 'constructor' gives Object, whose create member is a function
getResourcePermission(resource, action) ==
    IF resource \in DOMAIN RESOURCE_PERMISSIONS
    THEN IF action \in DOMAIN RESOURCE_PERMISSIONS[resource]
         THEN RESOURCE_PERMISSIONS[resource][action]
         ELSE Null
    ELSE IF resource = "constructor" /\ action = "create" THEN ObjectCreate
    ELSE Null

\* lines 611-613
isValidRole(role) == role \in ObjectValues(ROLES)

\* a value of the levels lookup: a number, or the function or object that a
\* name inherited from Object.prototype gives, kept by its string form
Level(n) == [number |-> TRUE, value |-> n, string |-> ""]
Inherited(string) == [number |-> FALSE, value |-> 0, string |-> string]

\* String(Object.prototype[name]) for the inherited names
StringForm(name) ==
    CASE name = "__proto__" -> "[object Object]"
      [] name = "constructor" -> "function Object() { [native code] }"
      [] OTHER -> "function " \o name \o "() { [native code] }"

\* the string forms in the order of their code units: "[" < "f", then by the
\* function's name, "O" < "_" < "h" < "i" < "p" < "t" < "v", "G" < "S",
\* "d" < "l" and "L" < "S"
StringOrder ==
    <<"[object Object]",
      "function Object() { [native code] }",
      "function __defineGetter__() { [native code] }",
      "function __defineSetter__() { [native code] }",
      "function __lookupGetter__() { [native code] }",
      "function __lookupSetter__() { [native code] }",
      "function hasOwnProperty() { [native code] }",
      "function isPrototypeOf() { [native code] }",
      "function propertyIsEnumerable() { [native code] }",
      "function toLocaleString() { [native code] }",
      "function toString() { [native code] }",
      "function valueOf() { [native code] }">>

\* lines 622-629: levels[role] || 0; a name inherited from Object.prototype
\* gives a function or object (truthy) instead of a number
getRoleLevel(role) ==
    IF role = ROLES.VIEWER THEN Level(1)
    ELSE IF role = ROLES.USER THEN Level(2)
    ELSE IF role = ROLES.ADMIN THEN Level(3)
    ELSE IF role \in ObjectPrototypeKeys THEN Inherited(StringForm(role))
    ELSE Level(0)

\* a >= b of JavaScript: numbers by value; two functions or objects by their
\* string forms; a number against a function or object is false (NaN)
GreaterOrEqual(a, b) ==
    IF a.number /\ b.number THEN a.value >= b.value
    ELSE IF ~a.number /\ ~b.number
    THEN \E i, k \in 1..Len(StringOrder) :
            /\ StringOrder[i] = a.string
            /\ StringOrder[k] = b.string
            /\ i >= k
    ELSE FALSE

\* lines 638-640
hasRoleLevel(userRole, requiredRole) ==
    GreaterOrEqual(getRoleLevel(userRole), getRoleLevel(requiredRole))

\* ------------------------------------------------------------ authorization gates
\* res.status(s).json({error, message, required}) without a call of next
Deny(gate, arg, user, method, owner, status, error, message, required, ownershipCalls) ==
    Call(gate, arg, user, method, owner, status, error, message, required,
         0, ownershipCalls, "")

\* next() without a response
Pass(gate, arg, user, method, owner, ownershipCalls) ==
    Call(gate, arg, user, method, owner, 0, "", "", NoValue, 1, ownershipCalls, "")

\* an exception that leaves the middleware: no response, no call of next
Throw(gate, arg, user, method, owner, ownershipCalls) ==
    Call(gate, arg, user, method, owner, 0, "", "", NoValue, 0, ownershipCalls, "throw")

\* a gate that goes on to the role check without an identity
UnauthenticatedNever(user) ==
    FALSE

\* lines 32, 81, 134, 180, 222, 297: !req.user
Unauthenticated(user) ==
    user = NoIdentity

\* a role check that takes every non-empty role string for a role
InvalidRoleLax(role) ==
    role = ""

\* lines 42, 91, 143, 189, 231: !role || !isValidRole(role)
InvalidRole(role) ==
    role = "" \/ ~isValidRole(role)

\* lines 50, 99-101: Array.isArray(x) ? x : [x]
Normalize(arg) == List(arg.items)

\* Array.prototype.includes
Includes(q, x) == \E i \in 1..Len(q) : q[i] = x

\* lines 29-64
requireRole(allowedRoles, user) ==
    LET D(status, error, message, required) ==
            Deny("requireRole", allowedRoles, user, "", "", status, error, message,
                 required, 0)
        roles == Normalize(allowedRoles).items
    IN  IF Unauthenticated(user)
        THEN D(401, "Unauthorized", "Authentication required", NoValue)
        ELSE IF InvalidRole(user.role)
        THEN D(403, "Forbidden", "Invalid user role", NoValue)
        ELSE IF ~Includes(roles, user.role)
        THEN D(403, "Forbidden", "Insufficient permissions",
               IF Len(roles) = 1 THEN Str(roles[1]) ELSE List(roles))
        ELSE Pass("requireRole", allowedRoles, user, "", "", 0)

\* a conjunction that looks at the first listed permission only
hasAllPermissionsFirstOnly(role, permissions) ==
    permissions = <<>> \/ hasPermission(role, permissions[1]) = "true"

\* lines 104-106: permissions.every(permission => hasPermission(role, permission))
hasAllPermissions(role, permissions) ==
    \A i \in 1..Len(permissions) : hasPermission(role, permissions[i]) = "true"

\* lines 78-119
requirePermission(requiredPermissions, user) ==
    LET D(status, error, message, required) ==
            Deny("requirePermission", requiredPermissions, user, "", "", status, error,
                 message, required, 0)
        permissions == Normalize(requiredPermissions).items
    IN  IF Unauthenticated(user)
        THEN D(401, "Unauthorized", "Authentication required", NoValue)
        ELSE IF InvalidRole(user.role)
        THEN D(403, "Forbidden", "Invalid user role", NoValue)
        ELSE IF ~hasAllPermissions(user.role, permissions)
        THEN D(403, "Forbidden", "Insufficient permissions", List(permissions))
        ELSE Pass("requirePermission", requiredPermissions, user, "", "", 0)

\* a disjunction that an empty list satisfies
hasAnyPermissionOrNone(role, permissions) ==
    \/ permissions = <<>>
    \/ \E i \in 1..Len(permissions) : hasPermission(role, permissions[i]) = "true"

\* lines 151-153: requiredPermissions.some(permission => hasPermission(role, permission))
hasAnyPermission(role, permissions) ==
    \E i \in 1..Len(permissions) : hasPermission(role, permissions[i]) = "true"

\* lines 132-165; the argument is not normalised, and a string has no some method
requireAnyPermission(requiredPermissions, user) ==
    LET D(status, error, message, required) ==
            Deny("requireAnyPermission", requiredPermissions, user, "", "", status,
                 error, message, required, 0)
    IN  IF Unauthenticated(user)
        THEN D(401, "Unauthorized", "Authentication required", NoValue)
        ELSE IF InvalidRole(user.role)
        THEN D(403, "Forbidden", "Invalid user role", NoValue)
        ELSE IF ~requiredPermissions.array
        THEN Throw("requireAnyPermission", requiredPermissions, user, "", "", 0)
        ELSE IF ~hasAnyPermission(user.role, requiredPermissions.items)
        THEN D(403, "Forbidden", "Insufficient permissions", requiredPermissions)
        ELSE Pass("requireAnyPermission", requiredPermissions, user, "", "", 0)

\* lines 178-207
requireRoleLevel(minimumRole, user) ==
    LET D(status, error, message, required) ==
            Deny("requireRoleLevel", Str(minimumRole), user, "", "", status, error,
                 message, required, 0)
    IN  IF Unauthenticated(user)
        THEN D(401, "Unauthorized", "Authentication required", NoValue)
        ELSE IF InvalidRole(user.role)
        THEN D(403, "Forbidden", "Invalid user role", NoValue)
        ELSE IF ~hasRoleLevel(user.role, minimumRole)
        THEN D(403, "Forbidden", "Insufficient role level", Str(minimumRole))
        ELSE Pass("requireRoleLevel", Str(minimumRole), user, "", "", 0)

\* lines 239-247: methodToAction[req.method] on a plain object. A name the
\* object does not answer to gives undefined (Null); a name inherited from
\* Object.prototype gives a function or object, which is truthy and which the
\* lookup of line 256 then uses as a property key, that is by its string form
methodToAction(method) ==
    CASE method = "GET" -> "read"
      [] method = "POST" -> "create"
      [] method = "PUT" -> "update"
      [] method = "PATCH" -> "update"
      [] method = "DELETE" -> "delete"
      [] method \in ObjectPrototypeKeys -> StringForm(method)
      [] OTHER -> Null

\* a lookup that falls back on a permission every role holds
requiredPermissionOrDefault(resourceName, action) ==
    IF getResourcePermission(resourceName, action) = Null
    THEN PERMISSIONS.SETTINGS_READ
    ELSE getResourcePermission(resourceName, action)

\* line 256: getResourcePermission(resourceName, action)
requiredPermission(resourceName, action) ==
    getResourcePermission(resourceName, action)

\* a resource gate that lets an admin through before it looks up the resource
requireResourceAccessAdminBypass(resourceName, user, method) ==
    IF Unauthenticated(user)
    THEN Deny("requireResourceAccess", Str(resourceName), user, method, "", 401,
              "Unauthorized", "Authentication required", NoValue, 0)
    ELSE IF user.role = ROLES.ADMIN
    THEN Pass("requireResourceAccess", Str(resourceName), user, method, "", 0)
    ELSE Deny("requireResourceAccess", Str(resourceName), user, method, "", 403,
              "Forbidden", "This action is not permitted on this resource", NoValue, 0)

\* lines 220-277
requireResourceAccess(resourceName, user, method) ==
    LET D(status, error, message, required) ==
            Deny("requireResourceAccess", Str(resourceName), user, method, "", status,
                 error, message, required, 0)
        action == methodToAction(method)
        permission == requiredPermission(resourceName, action)
    IN  IF Unauthenticated(user)
        THEN D(401, "Unauthorized", "Authentication required", NoValue)
        ELSE IF InvalidRole(user.role)
        THEN D(403, "Forbidden", "Invalid user role", NoValue)
        ELSE IF action = Null
        THEN D(405, "Method Not Allowed",
               "HTTP method " \o method \o " is not supported", NoValue)
        ELSE IF permission = Null
        THEN D(403, "Forbidden", "This action is not permitted on this resource",
               NoValue)
        ELSE IF hasPermission(user.role, permission) # "true"
        THEN D(403, "Forbidden", "Insufficient permissions for this action",
               Str(permission))
        ELSE Pass("requireResourceAccess", Str(resourceName), user, method, "", 0)

\* an ownership gate that lets the request through when the predicate fails
requireOwnershipSilent(user, owner) ==
    IF Unauthenticated(user)
    THEN Deny("requireOwnership", NoValue, user, "", owner, 401, "Unauthorized",
              "Authentication required", NoValue, 0)
    ELSE IF user.role = "admin"
    THEN Pass("requireOwnership", NoValue, user, "", owner, 0)
    ELSE IF owner = "false"
    THEN Deny("requireOwnership", NoValue, user, "", owner, 403, "Forbidden",
              "You can only access your own resources", NoValue, 1)
    ELSE Pass("requireOwnership", NoValue, user, "", owner, 1)

\* lines 295-328, from the call to the answer; owner is what ownershipCheck(req)
\* does: "true" or "false" for the value it returns or resolves to, "throw"
\* when the call itself throws, "reject" when the promise it returns rejects
requireOwnership(user, owner) ==
    IF Unauthenticated(user)
    THEN Deny("requireOwnership", NoValue, user, "", owner, 401, "Unauthorized",
              "Authentication required", NoValue, 0)
    ELSE IF user.role = "admin"
    THEN Pass("requireOwnership", NoValue, user, "", owner, 0)
    ELSE IF owner \in {"throw", "reject"}
    THEN Deny("requireOwnership", NoValue, user, "", owner, 500,
              "Internal Server Error", "Failed to verify resource ownership", NoValue, 1)
    ELSE IF owner = "false"
    THEN Deny("requireOwnership", NoValue, user, "", owner, 403, "Forbidden",
              "You can only access your own resources", NoValue, 1)
    ELSE Pass("requireOwnership", NoValue, user, "", owner, 1)

\* ------------------------------------------------------------ gate inputs
\* the inherited names the gates are called with: the one whose value is an
\* object, the constructor Object, and two of the ten methods
InheritedSample == {"__proto__", "constructor", "toString", "valueOf"}

\* role strings: the enumerated ones, a missing one, one nobody defined, and
\* names inherited from Object.prototype
RoleStrings == ObjectValues(ROLES) \cup {"", "guest"} \cup InheritedSample

\* req.user: absent, or a decoded identity with one of the role strings
Identities ==
    {NoIdentity} \cup
    {[id |-> "7", email |-> "someone@lumanagi.com", role |-> r] : r \in RoleStrings}

SeqsUpTo(S, n) == UNION {[1..k -> S] : k \in 0..n}

\* a gate argument over S: one string, or an array of at most MaxList strings
Args(S) == {Str(s) : s \in S} \cup {List(q) : q \in SeqsUpTo(S, MaxList)}

RoleSample == ObjectValues(ROLES) \cup {"guest"}
PermissionSample ==
    {PERMISSIONS.CONTRACTS_READ, PERMISSIONS.CONTRACTS_CREATE,
     PERMISSIONS.USERS_DELETE, "reports:export"}
Resources == DOMAIN RESOURCE_PERMISSIONS \cup {"reports", "constructor", "__proto__"}
Methods ==
    {"GET", "POST", "PUT", "PATCH", "DELETE", "HEAD", "OPTIONS", "constructor", "__proto__"}
Ownerships == {"true", "false", "throw", "reject"}

\* ------------------------------------------------------------ gate calls
Others ==
    <<users, refreshTokens, now, ticks, jar, pc, req, resp, loggedOut, opt, chain,
      buckets, flights, route>>

RequireRole(allowedRoles, user) ==
    /\ authz' = requireRole(allowedRoles, user)
    /\ UNCHANGED <<waiting, Others>>

RequirePermission(requiredPermissions, user) ==
    /\ authz' = requirePermission(requiredPermissions, user)
    /\ UNCHANGED <<waiting, Others>>

RequireAnyPermission(requiredPermissions, user) ==
    /\ authz' = requireAnyPermission(requiredPermissions, user)
    /\ UNCHANGED <<waiting, Others>>

RequireRoleLevel(minimumRole, user) ==
    /\ authz' = requireRoleLevel(minimumRole, user)
    /\ UNCHANGED <<waiting, Others>>

RequireResourceAccess(resourceName, user, method) ==
    /\ authz' = requireResourceAccess(resourceName, user, method)
    /\ UNCHANGED <<waiting, Others>>

\* requireOwnership calls that may be suspended at the same time
MaxWaiting == 1

\* lines 297-310: the call goes as far as `await ownershipCheck(req)` when it
\* has an identity that is not an admin and the predicate returns to it
Suspends(user, owner) ==
    /\ ~Unauthenticated(user)
    /\ user.role # "admin"
    /\ owner # "throw"

\* line 310, at the await: the predicate was called, nothing was answered and
\* next was not called
Awaiting(user, owner) ==
    Call("requireOwnership", NoValue, user, "", owner, 0, "", "", NoValue, 0, 1,
         "pending")

Without(q, i) == [k \in 1..(Len(q) - 1) |-> IF k < i THEN q[k] ELSE q[k + 1]]

\* lines 295-310: the synchronous part of a call. Without an identity (401),
\* for an admin (next) and when the predicate throws on the call (500) the
\* gate ends here; otherwise it returns to the event loop at the await
RequireOwnership(user, owner) ==
    /\ IF Suspends(user, owner)
       THEN /\ Len(waiting) < MaxWaiting
            /\ authz' = Awaiting(user, owner)
            /\ waiting' = Append(waiting, Awaiting(user, owner))
       ELSE /\ authz' = requireOwnership(user, owner)
            /\ UNCHANGED waiting
    /\ UNCHANGED Others

\* lines 310-326: the awaited predicate settled and the i-th suspended call
\* goes on to its answer
RequireOwnershipResume(i) ==
    /\ i \in 1..Len(waiting)
    /\ authz' = requireOwnership(waiting[i].user, waiting[i].owner)
    /\ waiting' = Without(waiting, i)
    /\ UNCHANGED Others

\* hasPermission applied on its own, outside any gate
HasPermission(role, permission) ==
    /\ authz' = Call("hasPermission", List(<<role, permission>>), NoIdentity, "", "",
                     0, "", "", NoValue, 0, 0, hasPermission(role, permission))
    /\ UNCHANGED <<waiting, Others>>

\* ------------------------------------------------------------ combineChecks
MaxChecks == 2

\* a configured gate: requireRole('admin') is Check("requireRole", Str("admin"))
Check(gate, arg) == [gate |-> gate, arg |-> arg]

\* line 351: checks[index](req, res, callback)
InvokeCheck(check, user, method, owner) ==
    CASE check.gate = "requireRole" -> requireRole(check.arg, user)
      [] check.gate = "requirePermission" -> requirePermission(check.arg, user)
      [] check.gate = "requireAnyPermission" -> requireAnyPermission(check.arg, user)
      [] check.gate = "requireRoleLevel" -> requireRoleLevel(check.arg.items[1], user)
      [] check.gate = "requireResourceAccess" ->
            requireResourceAccess(check.arg.items[1], user, method)
      [] check.gate = "requireOwnership" -> requireOwnership(user, owner)

\* lines 351-356: the gate called the callback, and without an error (no gate
\* of this module passes one), so runChecks(index + 1) is called
Continues(call) ==
    call.nextCalls = 1 /\ call.result # "throw"

\* the gates a route may be configured with, a malformed one included
CheckSample ==
    {Check("requireRole", Str("admin")),
     Check("requirePermission", List(<<"contracts:read", "contracts:create">>)),
     Check("requireAnyPermission", List(<<"contracts:create", "users:delete">>)),
     Check("requireAnyPermission", Str("contracts:read")),
     Check("requireRoleLevel", Str("user")),
     Check("requireResourceAccess", Str("contract-metrics")),
     Check("requireOwnership", NoValue)}

\* authorize.js 309-326: an exception thrown by a later gate unwinds through
\* the callbacks to the nearest requireOwnership before it. For an identity
\* that is not an admin that gate called next() inside its try (line 319), so
\* its catch answers; an admin's next() is at line 306, outside the try
Catches(c) ==
    /\ c.user.role # "admin"
    /\ \E i \in 1..(c.index - 1) : c.checks[i].gate = "requireOwnership"

\* lines 351-356: what the request is after checks[index] ended as call
After(c, call) ==
    IF call.result = "throw"
    THEN IF Catches(c)
         THEN [c EXCEPT !.calls = Append(@, call),
                        !.status = 500,
                        !.message = "Failed to verify resource ownership",
                        !.required = NoValue,
                        !.result = "denied"]
         ELSE [c EXCEPT !.calls = Append(@, call), !.result = "throw"]
    ELSE IF Continues(call)
    THEN [c EXCEPT !.calls = Append(@, call), !.index = @ + 1,
                   !.status = call.status,
                   !.message = call.message,
                   !.required = call.required,
                   !.result = "running"]
    ELSE [c EXCEPT !.calls = Append(@, call),
                   !.status = call.status,
                   !.message = call.message,
                   !.required = call.required,
                   !.result = "denied"]

\* lines 346-357: runChecks(index), index counting from 1 here, with the calls
\* of runChecks(index + 1) that the gates' callbacks make before it returns: a
\* gate that calls next does so before it returns, except requireOwnership,
\* which leaves the request suspended when it reaches its await
RECURSIVE runChecks(_)
runChecks(c) ==
    IF c.result # "running"
    THEN c
    ELSE IF c.index > Len(c.checks)
    THEN [c EXCEPT !.nextCalls = @ + 1, !.result = "passed"]
    ELSE IF c.checks[c.index].gate = "requireOwnership" /\ Suspends(c.user, c.owner)
    THEN [c EXCEPT !.result = "suspended"]
    ELSE runChecks(After(c, InvokeCheck(c.checks[c.index], c.user, c.method, c.owner)))

\* lines 344-359: combineChecks(checks)(req, res, next) is called and calls
\* runChecks(0); chain follows one request through the combinator
CombineChecks(checks, user, method, owner) ==
    /\ chain = NoCombined
    /\ chain' = runChecks(Combined(checks, user, method, owner, 1, <<>>, 0, "", NoValue,
                                   0, "running"))
    /\ UNCHANGED <<users, refreshTokens, now, ticks, jar, pc, req, resp, loggedOut, opt,
                   authz, waiting, buckets, flights, route>>

\* lines 310-326 inside a chain: the predicate of the suspended requireOwnership
\* check settled, the check goes on to its answer, and when that is next() the
\* following checks run inside it
ResumeChecks ==
    /\ chain.result = "suspended"
    /\ chain' = runChecks(After(chain, InvokeCheck(chain.checks[chain.index], chain.user,
                                                   chain.method, chain.owner)))
    /\ UNCHANGED <<users, refreshTokens, now, ticks, jar, pc, req, resp, loggedOut, opt,
                   authz, waiting, buckets, flights, route>>

NextCombine ==
    \/ \E q \in SeqsUpTo(CheckSample, MaxChecks),
          u \in {i \in Identities : i.role \notin ObjectPrototypeKeys},
          m \in {"GET", "POST"}, o \in Ownerships : CombineChecks(q, u, m, o)
    \/ ResumeChecks

SpecCombine == Init /\ [][NextCombine]_vars

\* ------------------------------------------------------------ rate limiting
MaxRequests == 7

\* rateLimit({windowMs, max, skipSuccessfulRequests, keyGenerator}); byUser says
\* that the keyGenerator option is the one that reads req.user first
Limiter(name, windowMs, max, skipSuccessfulRequests, byUser) ==
    [name |-> name, windowMs |-> windowMs, max |-> max,
     skipSuccessfulRequests |-> skipSuccessfulRequests, byUser |-> byUser]

loginRateLimiter == Limiter("login", 15 * 60 * 1000, 5, TRUE, FALSE)

\* a registration limiter that admits one request more than configured
registerRateLimiterLax == Limiter("register", 60 * 60 * 1000, 4, FALSE, FALSE)

registerRateLimiter == Limiter("register", 60 * 60 * 1000, 3, FALSE, FALSE)

authenticatedApiRateLimiter == Limiter("authenticatedApi", 15 * 60 * 1000, 300, FALSE, TRUE)

writeOperationsRateLimiter == Limiter("writeOperations", 15 * 60 * 1000, 50, FALSE, FALSE)

\* String.prototype.trim on the header entries that occur
Trim(s) ==
    CASE s = " 10.0.0.1" -> "10.0.0.1"
      [] s = "10.0.0.1 " -> "10.0.0.1"
      [] OTHER -> s

\* lines 51-56: forwarded ? forwarded.split(',')[0].trim() : req.ip
keyGenerator(origin) ==
    IF origin.forwarded # <<>> THEN Trim(origin.forwarded[1]) ELSE origin.ip

\* lines 171-174: req.user?.id || keyGenerator(req), with the req.user that the
\* middleware before the limiter left on the request
userKeyGenerator(user, origin) ==
    IF user # NoIdentity /\ user.id # "" THEN user.id ELSE keyGenerator(origin)

KeyOf(limiter, user, origin) ==
    IF limiter.byUser THEN userKeyGenerator(user, origin) ELSE keyGenerator(origin)

\* the clock of the model counts seconds
Seconds(ms) == ms \div 1000

\* a counter of the memory store, with what its current window has seen so far:
\* requests counted, requests passed on to the route, responses of status >= 400,
\* and decrements on behalf of requests that an earlier window had counted
Client(totalHits, resetTime, arrived, admitted, failed, stale) ==
    [totalHits |-> totalHits, resetTime |-> resetTime, arrived |-> arrived,
     admitted |-> admitted, failed |-> failed, stale |-> stale]

\* MemoryStore.resetClient: a counter of zero whose window ends windowMs from now
NewClient(limiter) == Client(0, now + Seconds(limiter.windowMs), 0, 0, 0, 0)

\* MemoryStore.getClient: the counter of the key, created on first use
getClient(limiter, key) ==
    IF <<limiter.name, key>> \in DOMAIN buckets
    THEN buckets[<<limiter.name, key>>]
    ELSE NewClient(limiter)

\* the counter as MemoryStore.increment finds it once an expired window is reset
Opened(limiter, key) ==
    IF getClient(limiter, key).resetTime <= now
    THEN NewClient(limiter)
    ELSE getClient(limiter, key)

\* MemoryStore.increment
increment(limiter, key) ==
    [Opened(limiter, key) EXCEPT !.totalHits = @ + 1, !.arrived = @ + 1]

\* MemoryStore.decrement: one hit less on whatever counter the key has now
decrement(limiter, key) ==
    [getClient(limiter, key) EXCEPT !.totalHits = IF @ > 0 THEN @ - 1 ELSE @]

Put(limiter, key, client) ==
    [k \in DOMAIN buckets \cup {<<limiter.name, key>>} |->
        IF k = <<limiter.name, key>> THEN client ELSE buckets[k]]

\* the limit check of the middleware: totalHits > limit
Limited(limiter, hit) == hit.totalHits > limiter.max

\* the default requestWasSuccessful: response.statusCode < 400
requestWasSuccessful(status) == status < 400

\* the requests of the key that a route has admitted and not yet answered
Pending(limiter, key) ==
    Cardinality({c \in Clients : /\ flights[c].stage = "pending"
                                  /\ flights[c].tier = limiter.name
                                  /\ flights[c].key = key})

\* the counter after a request counted as hit has been answered at once with status
Answered(limiter, hit, status, admitted) ==
    LET seen == [hit EXCEPT !.admitted = IF admitted THEN @ + 1 ELSE @]
    IN  IF limiter.skipSuccessfulRequests /\ requestWasSuccessful(status)
        THEN [seen EXCEPT !.totalHits = IF @ > 0 THEN @ - 1 ELSE @]
        ELSE IF status >= 400 THEN [seen EXCEPT !.failed = @ + 1] ELSE seen

\* the store after the response 'finish' event of a request that was pending:
\* a successful response under skipSuccessfulRequests decrements the key, and a
\* response of status >= 400 is one more failure of the window that counted it
Finished(limiter, flight, status) ==
    IF limiter.skipSuccessfulRequests /\ requestWasSuccessful(status)
    THEN Put(limiter, flight.key,
             [decrement(limiter, flight.key) EXCEPT
                 !.stale = IF getClient(limiter, flight.key).resetTime = flight.window
                           THEN @ ELSE @ + 1])
    ELSE IF /\ status >= 400
            /\ <<limiter.name, flight.key>> \in DOMAIN buckets
            /\ buckets[<<limiter.name, flight.key>>].resetTime = flight.window
    THEN Put(limiter, flight.key,
             [buckets[<<limiter.name, flight.key>>] EXCEPT !.failed = @ + 1])
    ELSE buckets

\* what the route records of a request counted as hit under key
Arrival(limiter, key, origin, hit) ==
    [NoRoute EXCEPT !.serial = route.serial + 1, !.tier = limiter.name, !.key = key,
                    !.origin = origin, !.totalHits = hit.totalHits,
                    !.limited = Limited(limiter, hit),
                    !.arrivedBefore = Opened(limiter, key).arrived,
                    !.failedBefore = Opened(limiter, key).failed,
                    !.pendingBefore = Pending(limiter, key),
                    !.staleBefore = Opened(limiter, key).stale]

\* the addresses the clients connect from, and the proxy header one of them sends
IpOf(c) == <<"10.0.0.1", "10.0.0.2">>[c]
ForwardedFor == {<<>>, <<" 10.0.0.1", "172.16.0.9">>}
Origins(c) == {Origin(IpOf(c), f) : f \in IF c = 1 THEN {<<>>} ELSE ForwardedFor}

\* ------------------------------------------------------------ POST /login behind loginRateLimiter
\* the limiter, then the handler up to its await
LimitedLoginStart(c, origin, email, password) ==
    /\ route.serial < MaxRequests
    /\ pc[c] = "idle"
    /\ LET key == KeyOf(loginRateLimiter, NoIdentity, origin)
           hit == increment(loginRateLimiter, key)
       IN  /\ route' = [Arrival(loginRateLimiter, key, origin, hit)
                            EXCEPT !.matching = Matches(email, password)]
           /\ IF Limited(loginRateLimiter, hit)
              THEN /\ resp' = Fail(c, "login", 429, "Too many requests")
                   /\ buckets' = Put(loginRateLimiter, key,
                                     Answered(loginRateLimiter, hit, 429, FALSE))
                   /\ UNCHANGED <<flights, pc, req, users, refreshTokens, now, ticks,
                                  jar, loggedOut, opt, authz, waiting, chain>>
              ELSE /\ LoginReceive(c, email, password)
                   /\ IF pc'[c] = "login"
                      THEN /\ flights' = [flights EXCEPT ![c] =
                                  Flight("pending", loginRateLimiter.name, key, hit.resetTime)]
                           /\ buckets' = Put(loginRateLimiter, key,
                                             [hit EXCEPT !.admitted = @ + 1])
                      ELSE /\ buckets' = Put(loginRateLimiter, key,
                                  Answered(loginRateLimiter, hit, resp'.status, TRUE))
                           /\ UNCHANGED flights

\* the handler after its await, then the 'finish' listener of the limiter
LimitedLoginFinish(c) ==
    /\ flights[c].stage = "pending"
    /\ flights[c].tier = loginRateLimiter.name
    /\ LoginResume(c)
    /\ buckets' = Finished(loginRateLimiter, flights[c], resp'.status)
    /\ flights' = [flights EXCEPT ![c] = NoFlight]
    /\ UNCHANGED route

\* the credentials tried: the right and a wrong password of an account, and an
\* email that has no account
LoginAttempts ==
    {<<"admin@lumanagi.com", "demo123">>, <<"admin@lumanagi.com", "Secret42">>,
     <<"new@lumanagi.com", "demo123">>}

NextLogin ==
    \/ \E c \in Clients : \E o \in Origins(c), a \in LoginAttempts :
            LimitedLoginStart(c, o, a[1], a[2])
    \/ \E c \in Clients : LimitedLoginFinish(c)
    \/ \E d \in {Seconds(loginRateLimiter.windowMs)} : Tick(d)

SpecLogin == Init /\ [][NextLogin]_vars

\* ------------------------------------------------------------ POST /register behind registerRateLimiter
\* the limiter, then the handler up to its await
LimitedRegisterStart(c, origin, email, password, full_name) ==
    /\ route.serial < MaxRequests
    /\ pc[c] = "idle"
    /\ LET key == KeyOf(registerRateLimiter, NoIdentity, origin)
           hit == increment(registerRateLimiter, key)
       IN  /\ route' = Arrival(registerRateLimiter, key, origin, hit)
           /\ IF Limited(registerRateLimiter, hit)
              THEN /\ resp' = Fail(c, "register", 429, "Too many requests")
                   /\ buckets' = Put(registerRateLimiter, key,
                                     Answered(registerRateLimiter, hit, 429, FALSE))
                   /\ UNCHANGED <<flights, pc, req, users, refreshTokens, now, ticks,
                                  jar, loggedOut, opt, authz, waiting, chain>>
              ELSE /\ RegisterReceive(c, email, password, full_name)
                   /\ IF pc'[c] = "register"
                      THEN /\ flights' = [flights EXCEPT ![c] =
                                  Flight("pending", registerRateLimiter.name, key, hit.resetTime)]
                           /\ buckets' = Put(registerRateLimiter, key,
                                             [hit EXCEPT !.admitted = @ + 1])
                      ELSE /\ buckets' = Put(registerRateLimiter, key,
                                  Answered(registerRateLimiter, hit, resp'.status, TRUE))
                           /\ UNCHANGED flights

\* the handler after its await; the limiter counts every attempt and keeps the hit
LimitedRegisterFinish(c) ==
    /\ flights[c].stage = "pending"
    /\ flights[c].tier = registerRateLimiter.name
    /\ RegisterResume(c)
    /\ buckets' = Finished(registerRateLimiter, flights[c], resp'.status)
    /\ flights' = [flights EXCEPT ![c] = NoFlight]
    /\ UNCHANGED route

\* the bodies sent: a new email, a taken one, and a body without full_name
RegisterAttempts ==
    {<<"new@lumanagi.com", "Secret42", "New User">>,
     <<"admin@lumanagi.com", "Secret42", "New User">>,
     <<"new@lumanagi.com", "Secret42", "">>}

NextRegister ==
    \/ \E c \in Clients : \E o \in Origins(c), a \in RegisterAttempts :
            LimitedRegisterStart(c, o, a[1], a[2], a[3])
    \/ \E c \in Clients : LimitedRegisterFinish(c)
    \/ \E d \in {Seconds(registerRateLimiter.windowMs)} : Tick(d)

SpecRegister == Init /\ [][NextRegister]_vars

\* ------------------------------------------------------------ entity routes
\* part_003 lines 139-165: the names createEntityRoutes is called with
entities ==
    <<"contract-metrics", "token-analytics", "markets", "oracle-feeds", "admin-logs",
      "alerts", "compliance-metrics", "security-incidents", "risk-assessments",
      "ai-model-metrics", "data-quality-metrics", "trust-boundary-events",
      "temporal-anomalies", "treasury-transactions", "simulation-scenarios",
      "ai-feedback", "compliance-evidence", "agents", "policy-states",
      "agent-decision-logs", "constitutional-rules", "agent-clusters", "meta-audits",
      "governance-proposals", "system-trust-scores">>

\* the verbs that reach a chain of createEntityRoutes: router.get, router.post,
\* router.put, router.delete, and HEAD, which Express hands to the router.get
\* chain of the path with req.method still 'HEAD'
MountedMethods == {"GET", "HEAD", "POST", "PUT", "DELETE"}

\* lines 72, 93, 110, 127: the limiter each route names first
limiterOf(method) ==
    IF method \in {"GET", "HEAD"}
    THEN authenticatedApiRateLimiter
    ELSE writeOperationsRateLimiter

\* lines 83, 101, 118, 130: the status of the business handler
handlerStatus(method) == IF method = "POST" THEN 201 ELSE 200

\* the access cookies a request can carry: none, a malformed one, and the
\* access token a login at this instant hands to each stored user
EntityCookies ==
    {NoToken, Garbage} \cup {generateTokens(users[i]).accessToken : i \in 1..Len(users)}

\* one request through the chain of an entity route: the limiter, which computes
\* its key from the request as it arrives (no middleware has set req.user yet),
\* authenticateToken, requireResourceAccess(entityName), validation, handler
EntityRequest(c, origin, accessToken, entityName, method, valid) ==
    /\ route.serial < MaxRequests
    /\ LET limiter == limiterOf(method)
           key == KeyOf(limiter, NoIdentity, origin)
           hit == increment(limiter, key)
           authenticated == accessToken # NoToken /\ AccessAccepted(accessToken)
           user == IF authenticated THEN Decoded(accessToken) ELSE NoIdentity
           gate == requireResourceAccess(entityName, user, method)
           status == IF Limited(limiter, hit) THEN 429
                     ELSE IF ~authenticated THEN 401
                     ELSE IF gate.result = "throw" THEN 500
                     ELSE IF gate.nextCalls = 0 THEN gate.status
                     ELSE IF ~valid THEN 400
                     ELSE handlerStatus(method)
       IN  /\ route' = [Arrival(limiter, key, origin, hit) EXCEPT
                           !.presented = accessToken,
                           !.entity = entityName,
                           !.method = method,
                           !.user = IF Limited(limiter, hit) THEN NoIdentity ELSE user,
                           !.status = status,
                           !.handler = (status = handlerStatus(method))]
           /\ buckets' = Put(limiter, key,
                             Answered(limiter, hit, status, ~Limited(limiter, hit)))
    /\ UNCHANGED <<users, refreshTokens, now, ticks, jar, pc, req, resp, loggedOut, opt,
                   authz, waiting, chain, flights>>

\* every entity route, one request per behaviour: the routes keep nothing from
\* one request to the next but the counters of the limiters
NextEntities ==
    /\ route = NoRoute
    /\ \E c \in Clients : \E o \in Origins(c), t \in EntityCookies,
          i \in 1..Len(entities), m \in MountedMethods, valid \in BOOLEAN :
            EntityRequest(c, o, t, entities[i], m, valid)

SpecEntities == Init /\ [][NextEntities]_vars

\* the list route of one entity under a stream of requests and the clock
NextEntityList ==
    \/ \E c \in Clients : \E o \in Origins(c), t \in EntityCookies, valid \in BOOLEAN :
            EntityRequest(c, o, t, entities[1], "GET", valid)
    \/ \E d \in {Seconds(authenticatedApiRateLimiter.windowMs)} : Tick(d)

SpecEntityList == Init /\ [][NextEntityList]_vars

\* no requireOwnership call is suspended
Quiet == waiting = <<>>

\* the gates are called with all their inputs while no call is suspended; the
\* requests served while a requireOwnership call waits for its predicate are
\* further requireOwnership calls and calls of requireRole('admin')
NextGates ==
    \/ \E a \in Args(RoleSample), u \in Identities : Quiet /\ RequireRole(a, u)
    \/ \E a \in Args(PermissionSample), u \in Identities :
            Quiet /\ RequirePermission(a, u)
    \/ \E a \in Args(PermissionSample), u \in Identities :
            Quiet /\ RequireAnyPermission(a, u)
    \/ \E m \in RoleStrings \ {""}, u \in Identities : Quiet /\ RequireRoleLevel(m, u)
    \/ \E r \in Resources, u \in Identities, m \in Methods :
            Quiet /\ RequireResourceAccess(r, u, m)
    \/ \E u \in Identities, o \in Ownerships : RequireOwnership(u, o)
    \/ \E i \in 1..MaxWaiting : RequireOwnershipResume(i)
    \/ \E u \in Identities : ~Quiet /\ RequireRole(Str("admin"), u)
    \/ \E r \in RoleStrings, p \in ObjectValues(PERMISSIONS) \cup {"reports:export"} :
            Quiet /\ HasPermission(r, p)

SpecGates == Init /\ [][NextGates]_vars

Next ==
    \/ \E c \in Clients, e \in Emails \cup {""}, pw \in Passwords \cup {""} :
            LoginStart(c, e, pw)
    \/ \E c \in Clients : LoginFinish(c)
    \/ \E c \in Clients, e \in Emails \cup {""}, pw \in Passwords \cup {""},
          fn \in FullNames \cup {""} : RegisterStart(c, e, pw, fn)
    \/ \E c \in Clients : RegisterFinish(c)
    \/ \E c \in Clients, t \in RefreshCookies : Refresh(c, t)
    \/ \E c \in Clients, t \in RefreshCookies : Logout(c, t)
    \/ \E c \in Clients, g \in GoogleIdTokens : GoogleStart(c, g)
    \/ \E c \in Clients : GoogleFinish(c)
    \/ \E c \in Clients, t \in AccessCookies : Authenticate(c, t)
    \/ \E c \in Clients, t \in AccessCookies : OptionalAuth(c, t)
    \/ \E d \in TimeSteps : Tick(d)
    \/ NextGates
    \/ NextCombine
    \/ NextLogin
    \/ NextRegister
    \/ NextEntities
    \/ NextEntityList

Spec == Init /\ [][Next]_vars

\* Spec composes every handler, middleware and gate with the clock.  SpecGates
\* above and the specifications below are its restrictions to the gates, to the
\* handlers that write the user list, and to those that write or read tokens
\* over time; each is explored exhaustively within the bounds.

\* the account operations alone: the user list under concurrent sign-up and sign-in
NextAccounts ==
    \/ \E c \in Clients, e \in Emails \cup {""}, pw \in Passwords \cup {""} :
            LoginStart(c, e, pw)
    \/ \E c \in Clients : LoginFinish(c)
    \/ \E c \in Clients, e \in Emails \cup {""}, pw \in Passwords \cup {""},
          fn \in FullNames \cup {""} : RegisterStart(c, e, pw, fn)
    \/ \E c \in Clients : RegisterFinish(c)
    \/ \E c \in Clients, g \in GoogleIdTokens : GoogleStart(c, g)
    \/ \E c \in Clients : GoogleFinish(c)

SpecAccounts == Init /\ [][NextAccounts]_vars

\* the token lifecycle alone: issue, rotate, revoke, authenticate, expire
NextTokens ==
    \/ \E c \in Clients, e \in Emails \cup {""}, pw \in Passwords \cup {""} :
            LoginStart(c, e, pw)
    \/ \E c \in Clients : LoginFinish(c)
    \/ \E c \in Clients, t \in RefreshCookies : Refresh(c, t)
    \/ \E c \in Clients, t \in RefreshCookies : Logout(c, t)
    \/ \E c \in Clients, t \in AccessCookies : Authenticate(c, t)
    \/ \E d \in TimeSteps : Tick(d)

SpecTokens == Init /\ [][NextTokens]_vars

\* every operation that issues tokens, and strict authentication of what they
\* issued, at one instant of the clock
NextIssuers ==
    \/ \E c \in Clients, e \in Emails, pw \in Passwords : LoginStart(c, e, pw)
    \/ \E c \in Clients : LoginFinish(c)
    \/ \E c \in Clients, e \in Emails, pw \in {"Secret42"}, fn \in FullNames :
            RegisterStart(c, e, pw, fn)
    \/ \E c \in Clients : RegisterFinish(c)
    \/ \E c \in Clients, g \in GoogleIdTokens \ {""} : GoogleStart(c, g)
    \/ \E c \in Clients : GoogleFinish(c)
    \/ \E c \in Clients, t \in RefreshCookies \ {NoToken} : Refresh(c, t)
    \/ \E c \in Clients, t \in AccessCookies \ {NoToken} : Authenticate(c, t)

SpecIssuers == Init /\ [][NextIssuers]_vars

\* optional authentication alone: tokens are issued, age, and are presented
NextOptional ==
    \/ \E c \in Clients, e \in Emails \cup {""}, pw \in Passwords \cup {""} :
            LoginStart(c, e, pw)
    \/ \E c \in Clients : LoginFinish(c)
    \/ \E c \in Clients, t \in AccessCookies : OptionalAuth(c, t)
    \/ \E d \in TimeSteps : Tick(d)

SpecOptional == Init /\ [][NextOptional]_vars

\* ------------------------------------------------------------ observations
\* the value of the cookie `name` set by response r, NoToken when r sets none
CookieValue(r, name) ==
    IF \E k \in r.cookies : k.name = name
    THEN (CHOOSE k \in r.cookies : k.name = name).value
    ELSE NoToken

ClearedNames(r) == {k.name : k \in r.cleared}

RefreshOk(r) == r.op = "refresh" /\ r.status = 200

\* ------------------------------------------------------------ token-lifecycle claims

\* C1: a refresh request presenting a token that is not in the registry is answered
\* 401 with no cookie set, and neither the registry nor the set of issued pairs
\* changes, whatever the token's signature and expiry.
C1_UnregisteredRefreshRejected ==
    [][(/\ resp'.op = "refresh"
        /\ Refresh(resp'.client, resp'.presented)
        /\ resp'.presented \notin refreshTokens)
              => /\ resp'.status = 401
                 /\ resp'.cookies = {}
                 /\ refreshTokens' = refreshTokens
                 /\ jar' = jar]_vars

\* C1 witness: a correctly signed, unexpired refresh token that was revoked by
\* logout has been presented and rejected.
C1_Witness ==
    /\ resp.op = "refresh"
    /\ resp.status = 401
    /\ Verify(resp.presented, JWT_REFRESH_SECRET) = "ok"
    /\ resp.presented \in loggedOut
    /\ resp.presented \notin refreshTokens

\* C2: right after a successful rotation of t into t', t is no longer in the
\* registry and t' is.
C2_RotationInvalidatesOld ==
    RefreshOk(resp) =>
        /\ resp.presented \notin refreshTokens
        /\ CookieValue(resp, "refreshToken") \in refreshTokens

\* C3: when two clients' refresh requests present the same token and are served
\* one after the other, the second is rejected once the first has succeeded.
C3_AtMostOneRotation ==
    [][(/\ RefreshOk(resp)
        /\ resp'.op = "refresh"
        /\ resp'.presented = resp.presented
        /\ resp'.client # resp.client
        /\ Refresh(resp'.client, resp'.presented))
              => resp'.status = 401]_vars

\* C4: a refresh request that does not succeed is answered 401, is told to clear
\* both cookies, and leaves the registry as it was.
C4_FailedRefreshClearsAndKeepsRegistry ==
    [][(/\ resp'.op = "refresh"
        /\ Refresh(resp'.client, resp'.presented)
        /\ resp'.status # 200)
              => /\ resp'.status = 401
                 /\ ClearedNames(resp') = {"accessToken", "refreshToken"}
                 /\ resp'.cookies = {}
                 /\ refreshTokens' = refreshTokens]_vars

\* C4 witness: a registered refresh token was presented after its expiry, so the
\* failure came from verification and not from the registry test.
C4_Witness ==
    /\ resp.op = "refresh"
    /\ resp.status = 401
    /\ resp.presented \in refreshTokens
    /\ Verify(resp.presented, JWT_REFRESH_SECRET) = "TokenExpiredError"
    /\ ClearedNames(resp) = {"accessToken", "refreshToken"}

\* C5: every logout response is 200 and clears both cookies.
C5_LogoutAlwaysSucceeds ==
    resp.op = "logout" =>
        /\ resp.status = 200
        /\ ClearedNames(resp) = {"accessToken", "refreshToken"}

\* C5 witness: a logout presenting a malformed cookie, and so one that is not in
\* the registry, has been answered.
C5_Witness ==
    /\ resp.op = "logout"
    /\ resp.presented = Garbage
    /\ resp.status = 200

\* C6: a refresh token presented in a completed logout is never in the registry
\* again, and no later refresh presenting it succeeds.
C6_LoggedOutStaysRevoked ==
    /\ loggedOut \cap refreshTokens = {}
    /\ RefreshOk(resp) => resp.presented \notin loggedOut

\* C7: strict authentication of a token signed with the access secret calls next
\* with the token's identity exactly while the token is younger than 15 minutes,
\* whatever the registry holds.
C7_AccessTokenOutlivesRevocation ==
    [][(/\ resp'.op = "auth"
        /\ Authenticate(resp'.client, resp'.presented)
        /\ resp'.presented.sig = JWT_SECRET)
              => IF now < resp'.presented.iat + 15 * 60
                 THEN /\ resp'.next
                      /\ resp'.status = 0
                      /\ resp'.user = Decoded(resp'.presented)
                 ELSE /\ ~resp'.next
                      /\ resp'.status = 401
                      /\ resp'.user = NoIdentity]_vars

\* C7 witness: an access token was accepted although the refresh token issued
\* with it had been logged out and is not in the registry.
C7_Witness ==
    /\ resp.op = "auth"
    /\ resp.next
    /\ \E t \in jar : /\ t.accessToken = resp.presented
                      /\ t.refreshToken \in loggedOut
                      /\ t.refreshToken \notin refreshTokens

\* ------------------------------------------------------------ account claims
\* both cookies of response r carry the flags and lifetimes of the cookie contract
CookiesAsSpecified(r) ==
    /\ {k.name : k \in r.cookies} = {"accessToken", "refreshToken"}
    /\ \A k \in r.cookies :
          /\ k.httpOnly
          /\ k.sameSite = "strict"
          /\ k.path = "/"
          /\ k.maxAge = IF k.name = "accessToken" THEN 15 * 60 * 1000
                                                 ELSE 7 * 24 * 60 * 60 * 1000

\* C8: a login whose (email, password) matches a stored user record goes on to
\* compare against a record holding that password, and is then answered 200 with
\* a token pair carrying that record's id, email and role, the refresh token in
\* the registry, and both cookies set as specified.
C8_MatchingLoginSucceeds ==
    [][/\ \A c \in Clients, e \in Emails, pw \in Passwords :
             (LoginStart(c, e, pw) /\ Matches(e, pw))
                 => /\ pc'[c] = "login"
                    /\ Compare(pw, users[req'[c].user].password) = "true"
       /\ \A c \in Clients :
             (LoginFinish(c) /\ Compare(req[c].password, users[req[c].user].password) = "true")
                 => /\ resp'.status = 200
                    /\ CookiesAsSpecified(resp')
                    /\ CookieValue(resp', "accessToken").sig = JWT_SECRET
                    /\ CookieValue(resp', "refreshToken").sig = JWT_REFRESH_SECRET
                    /\ Decoded(CookieValue(resp', "accessToken")) = Body(users[req[c].user])
                    /\ Decoded(CookieValue(resp', "refreshToken")) = Body(users[req[c].user])
                    /\ CookieValue(resp', "refreshToken") \in refreshTokens']_vars

\* C9: a login whose (email, password) matches no stored user record is answered
\* 401, sets no cookie and leaves the registry as it was.
C9_BadCredentialsGet401 ==
    [][/\ \A c \in Clients, e \in Emails, pw \in Passwords :
             (LoginStart(c, e, pw) /\ ~Matches(e, pw) /\ pc'[c] = "idle")
                 => /\ resp'.status = 401
                    /\ resp'.cookies = {}
                    /\ refreshTokens' = refreshTokens
       /\ \A c \in Clients :
             (LoginFinish(c) /\ ~Matches(req[c].email, req[c].password))
                 => /\ resp'.status = 401
                    /\ resp'.cookies = {}
                    /\ refreshTokens' = refreshTokens]_vars

\* C10: a register request whose email belongs to a stored record when the handler
\* looks it up is answered 409 and changes neither the user list nor the registry
\* nor any cookie; one whose email is fresh then is not refused, and when its
\* handler completes it is answered 201, exactly one record with role 'user' and
\* that email is appended, and that record's refresh token is in the registry.
C10_RegisterConflictOrCreate ==
    [][/\ \A c \in Clients, e \in Emails, pw \in Passwords, fn \in FullNames :
             RegisterStart(c, e, pw, fn)
                 => IF \E i \in 1..Len(users) : users[i].email = e
                    THEN /\ resp'.status = 409
                         /\ resp'.cookies = {}
                         /\ pc'[c] = "idle"
                         /\ users' = users
                         /\ refreshTokens' = refreshTokens
                    ELSE /\ pc'[c] = "register"
                         /\ resp' = resp
       /\ \A c \in Clients :
             RegisterFinish(c)
                 => /\ resp'.status = 201
                    /\ Len(users') = Len(users) + 1
                    /\ SubSeq(users', 1, Len(users)) = users
                    /\ users'[Len(users')].role = "user"
                    /\ users'[Len(users')].email = req[c].email
                    /\ Decoded(CookieValue(resp', "refreshToken")) = Body(users'[Len(users')])
                    /\ CookieValue(resp', "refreshToken") \in refreshTokens'
                    /\ refreshTokens' = refreshTokens \cup {CookieValue(resp', "refreshToken")}]_vars

\* C10 witness: a registration was answered 201 for the record now last in the
\* list, the one record added to the seeded users.
C10_Witness ==
    /\ resp.op = "register"
    /\ resp.status = 201
    /\ users[Len(users)].email = resp.user.email
    /\ users[Len(users)].role = "user"
    /\ Len(users) = Len(SeedUsers) + 1

\* ------------------------------------------------------------ middleware claims
\* C11: strict authentication answers 401 'Access token required' without a
\* cookie, 401 'Access token expired' for a token of the access secret whose
\* expiry has been reached, 401 'Invalid access token' for a malformed or
\* wrongly signed token, and 401 'Authentication failed' for any other
\* verification error; it attaches the decoded identity and calls next only when
\* the token verifies, and attaches nothing on a failing path.
C11_StrictAuthentication ==
    [][(/\ resp'.op = "auth"
        /\ Authenticate(resp'.client, resp'.presented))
              => LET t == resp'.presented
                     Rejected(message) == /\ resp'.status = 401
                                          /\ resp'.error = message
                                          /\ ~resp'.next
                                          /\ resp'.user = NoIdentity
                 IN  /\ CASE t = NoToken -> Rejected("Access token required")
                          [] t.sig = JWT_SECRET /\ now >= t.exp ->
                                Rejected("Access token expired")
                          [] t.sig = JWT_SECRET /\ now < t.exp ->
                                /\ resp'.next
                                /\ resp'.status = 0
                                /\ resp'.user = Decoded(t)
                          [] OTHER -> Rejected("Invalid access token")
                     /\ \A name \in {"NotBeforeError", "TypeError", "Error"} :
                            AuthError(name) = "Authentication failed"]_vars

\* C11 witness: an access token issued by a login was presented after its
\* fifteen minutes and was answered 401 'Access token expired'.
C11_Witness ==
    /\ resp.op = "auth"
    /\ resp.status = 401
    /\ resp.error = "Access token expired"
    /\ \E t \in jar : t.accessToken = resp.presented

\* C12: optional authentication calls next exactly once and sends no response
\* whatever the cookie holds; the identity is attached exactly when the token
\* verifies, and a token that fails verification leaves a warning on the console.
C12_OptionalNeverBlocks ==
    [][OptionalAuth(opt'.client, opt'.presented)
              => LET t == opt'.presented
                     verifies == t.sig = JWT_SECRET /\ now < t.exp
                 IN  /\ opt'.nextCalls = 1
                     /\ resp' = resp
                     /\ opt'.user = (IF verifies THEN Decoded(t) ELSE NoIdentity)
                     /\ (opt'.user # NoIdentity) <=> verifies
                     /\ (t # NoToken /\ ~verifies)
                            => /\ Len(opt'.warned) = 2
                               /\ opt'.warned[1] = "Optional auth token invalid:"]_vars

\* C12 witness: an expired access token went through optional authentication:
\* next was called, no identity was attached and 'jwt expired' was logged.
C12_Witness ==
    /\ opt.nextCalls = 1
    /\ opt.user = NoIdentity
    /\ opt.warned = <<"Optional auth token invalid:", "jwt expired">>
    /\ \E t \in jar : t.accessToken = opt.presented

\* ------------------------------------------------------------ authorization claims
Gates ==
    {"requireRole", "requirePermission", "requireAnyPermission", "requireRoleLevel",
     "requireResourceAccess", "requireOwnership"}

\* the enumerated roles and the verb table, as the specification words them
EnumeratedRoles == {"admin", "user", "viewer"}
Verbs == {"GET", "POST", "PUT", "PATCH", "DELETE"}
ActionOf(method) ==
    CASE method = "GET" -> "read"
      [] method = "POST" -> "create"
      [] method \in {"PUT", "PATCH"} -> "update"
      [] method = "DELETE" -> "delete"

\* the Resource-Action Map has no permission for the pair
Unmapped(resource, action) ==
    \/ resource \notin DOMAIN RESOURCE_PERMISSIONS
    \/ RESOURCE_PERMISSIONS[resource][action] = Null

Range(q) == {q[i] : i \in 1..Len(q)}

\* C13: a gate called without an identity answers 401 'Authentication required'
\* whatever its argument, the verb and the ownership predicate are: it does not
\* call next, does not answer 405, and does not invoke the predicate.
C13_NoIdentityIs401First ==
    (authz.gate \in Gates /\ authz.user = NoIdentity)
        => /\ authz.status = 401
           /\ authz.message = "Authentication required"
           /\ authz.nextCalls = 0
           /\ authz.ownershipCalls = 0
           /\ authz.result # "throw"

\* C13 witness: a HEAD request without identity reached requireResourceAccess
\* and was answered 401.
C13_Witness ==
    /\ authz.gate = "requireResourceAccess"
    /\ authz.user = NoIdentity
    /\ authz.method = "HEAD"
    /\ authz.status = 401

\* C14: requireResourceAccess answers 403 without calling next to every
\* authenticated request with a supported verb whose (resource, action) pair is
\* not a key of the Resource-Action Map or is mapped to null, for every role.
C14_UnmappedPairDenied ==
    (/\ authz.gate = "requireResourceAccess"
     /\ authz.user # NoIdentity
     /\ authz.method \in Verbs
     /\ Unmapped(authz.arg.items[1], ActionOf(authz.method)))
        => /\ authz.status = 403
           /\ authz.nextCalls = 0

\* C14 witness: an admin's DELETE on audit-logs was answered 403.
C14_Witness ==
    /\ authz.gate = "requireResourceAccess"
    /\ authz.arg = Str("audit-logs")
    /\ authz.user.role = "admin"
    /\ authz.method = "DELETE"
    /\ authz.status = 403
    /\ authz.message = "This action is not permitted on this resource"

\* C15: for an identity with an enumerated role, requireResourceAccess answers
\* 405 to a verb outside GET, POST, PUT, PATCH, DELETE; for a mapped
\* (resource, action) it calls next exactly when the role holds the mapped
\* permission, and otherwise answers 403 with required equal to that permission.
C15_ResourceAccessByVerb ==
    (/\ authz.gate = "requireResourceAccess"
     /\ authz.user.role \in EnumeratedRoles)
        => IF authz.method \notin Verbs
           THEN authz.status = 405 /\ authz.nextCalls = 0
           ELSE LET resource == authz.arg.items[1]
                    action == ActionOf(authz.method)
                IN  ~Unmapped(resource, action)
                       => LET p == RESOURCE_PERMISSIONS[resource][action]
                          IN  IF p \in ROLE_PERMISSIONS[authz.user.role]
                              THEN authz.nextCalls = 1 /\ authz.status = 0
                              ELSE /\ authz.nextCalls = 0
                                   /\ authz.status = 403
                                   /\ authz.required = Str(p)

\* C16: hasPermission(role, p) returns, without raising, true exactly when role
\* is an enumerated role and p is in its granted set, and false for every other
\* role string.
C16_HasPermissionTotal ==
    authz.gate = "hasPermission"
        => LET role == authz.arg.items[1]
               p == authz.arg.items[2]
           IN  authz.result =
                  (IF role \in EnumeratedRoles /\ p \in ROLE_PERMISSIONS[role]
                   THEN "true" ELSE "false")

\* C17: no gate calls next for an identity whose role is not enumerated, for a
\* resource or action the Resource-Action Map does not define, or when the
\* minimum role it was configured with is not enumerated.
C17_FailSecure ==
    authz.gate \in Gates
        => /\ authz.user.role \notin EnumeratedRoles => authz.nextCalls = 0
           /\ (/\ authz.gate = "requireResourceAccess"
               /\ authz.method \in Verbs
               /\ Unmapped(authz.arg.items[1], ActionOf(authz.method)))
                  => authz.nextCalls = 0
           /\ (/\ authz.gate = "requireRoleLevel"
               /\ authz.arg.items[1] \notin EnumeratedRoles)
                  => authz.nextCalls = 0

\* C18: for an authenticated identity, requireRole calls next exactly when the
\* role is enumerated and is one of the allowed roles, a single role standing for
\* the list of that one role; otherwise it answers 403, and for an enumerated
\* role the payload's required field is the allowed role when there is one, the
\* list of allowed roles otherwise.
C18_RequireRole ==
    (authz.gate = "requireRole" /\ authz.user # NoIdentity)
        => LET allowed == authz.arg.items
               role == authz.user.role
           IN  IF role \in EnumeratedRoles /\ role \in Range(allowed)
               THEN authz.nextCalls = 1 /\ authz.status = 0
               ELSE /\ authz.nextCalls = 0
                    /\ authz.status = 403
                    /\ role \in EnumeratedRoles
                          => authz.required = (IF Len(allowed) = 1
                                               THEN Str(allowed[1])
                                               ELSE List(allowed))

\* C18 witness: a viewer met requireRole(['admin', 'user']) and was answered 403
\* with the list as required.
C18_Witness ==
    /\ authz.gate = "requireRole"
    /\ authz.user.role = "viewer"
    /\ authz.arg = List(<<"admin", "user">>)
    /\ authz.status = 403
    /\ authz.required = List(<<"admin", "user">>)

\* C19: for an authenticated identity, requirePermission answers 403 to a role
\* that is not enumerated; for an enumerated role it calls next exactly when the
\* role holds every listed permission and otherwise answers 403 with required
\* equal to the whole list, a single string standing for the list of that one.
C19_RequirePermissionAll ==
    (authz.gate = "requirePermission" /\ authz.user # NoIdentity)
        => LET listed == authz.arg.items
               role == authz.user.role
           IN  IF role \notin EnumeratedRoles
               THEN authz.status = 403 /\ authz.nextCalls = 0
               ELSE IF Range(listed) \subseteq ROLE_PERMISSIONS[role]
               THEN authz.nextCalls = 1 /\ authz.status = 0
               ELSE /\ authz.nextCalls = 0
                    /\ authz.status = 403
                    /\ authz.required = List(listed)

\* C19 witness: a user holding 'contracts:read' but not 'users:delete' met
\* requirePermission of both and was answered 403 with both as required.
C19_Witness ==
    /\ authz.gate = "requirePermission"
    /\ authz.user.role = "user"
    /\ authz.arg = List(<<"contracts:read", "users:delete">>)
    /\ authz.status = 403
    /\ authz.required = authz.arg

\* C20: given a list, requireAnyPermission calls next for an authenticated
\* identity exactly when its role is enumerated and holds at least one listed
\* permission, and answers 403 otherwise; with the empty list it calls next for
\* no identity; and it calls next for every identity for which requirePermission
\* of the same non-empty list does.
C20_RequireAnyPermission ==
    (authz.gate = "requireAnyPermission" /\ authz.arg.array)
        => LET listed == authz.arg.items
               role == authz.user.role
           IN  /\ authz.user # NoIdentity
                     => IF /\ role \in EnumeratedRoles
                           /\ Range(listed) \cap ROLE_PERMISSIONS[role] # {}
                        THEN authz.nextCalls = 1 /\ authz.status = 0
                        ELSE authz.nextCalls = 0 /\ authz.status = 403
               /\ listed = <<>> => authz.nextCalls = 0
               /\ (/\ listed # <<>>
                   /\ requirePermission(authz.arg, authz.user).nextCalls = 1)
                     => authz.nextCalls = 1

\* C20 witness: an admin met requireAnyPermission([]) and was answered 403.
C20_Witness ==
    /\ authz.gate = "requireAnyPermission"
    /\ authz.arg = List(<<>>)
    /\ authz.user.role = "admin"
    /\ authz.status = 403
    /\ authz.nextCalls = 0

\* the ranks of the hierarchy as the specification words them: viewer 1, user 2,
\* admin 3, and 0 for any other string
RankOf(role) ==
    CASE role = "viewer" -> 1
      [] role = "user" -> 2
      [] role = "admin" -> 3
      [] OTHER -> 0

\* C21: for an identity with an enumerated role, requireRoleLevel(minimumRole)
\* calls next exactly when the rank of the role is at least the rank of
\* minimumRole, and otherwise answers 403 with required equal to minimumRole.
C21_RoleLevelOrder ==
    (authz.gate = "requireRoleLevel" /\ authz.user.role \in EnumeratedRoles)
        => IF RankOf(authz.user.role) >= RankOf(authz.arg.items[1])
           THEN authz.nextCalls = 1 /\ authz.status = 0
           ELSE /\ authz.nextCalls = 0
                /\ authz.status = 403
                /\ authz.required = authz.arg

\* C22: requireOwnership passes an admin without consulting the predicate; it
\* passes any other identity exactly when the predicate resolves true, answers
\* 403 when it resolves false and 500 when it throws or rejects, and in those
\* two cases does not call next; while the predicate is awaited it has neither
\* answered nor called next.
C22_Ownership ==
    (authz.gate = "requireOwnership" /\ authz.user # NoIdentity)
        => IF authz.user.role = "admin"
           THEN authz.nextCalls = 1 /\ authz.status = 0 /\ authz.ownershipCalls = 0
           ELSE /\ authz.ownershipCalls = 1
                /\ IF authz.result = "pending"
                   THEN authz.nextCalls = 0 /\ authz.status = 0
                   ELSE CASE authz.owner = "true" ->
                                authz.nextCalls = 1 /\ authz.status = 0
                          [] authz.owner = "false" ->
                                authz.nextCalls = 0 /\ authz.status = 403
                          [] authz.owner \in {"throw", "reject"} ->
                                authz.nextCalls = 0 /\ authz.status = 500

\* C22 witness: the predicate rejected for a non-admin whose call had been
\* suspended, and the gate answered 500.
C22_Witness ==
    /\ authz.gate = "requireOwnership"
    /\ authz.user.role = "user"
    /\ authz.owner = "reject"
    /\ authz.result # "pending"
    /\ authz.status = 500
    /\ authz.message = "Failed to verify resource ownership"
    /\ authz.nextCalls = 0

\* ------------------------------------------------------------ combinator claims
\* what gate i of the request in chain does when called on its own
OwnCall(i) == InvokeCheck(chain.checks[i], chain.user, chain.method, chain.owner)
OwnPass(i) == OwnCall(i).nextCalls = 1 /\ OwnCall(i).result # "throw"

\* C23: combineChecks calls the gates in list order, each at most once and gate
\* i+1 only after gate i called next; it calls no gate after the first one that
\* did not; the response of the request is that gate's own response; and the
\* downstream next is called once exactly when every gate passed, also when
\* the list is empty.
C23_CombineInOrder ==
    chain # NoCombined
        => LET n == Len(chain.calls)
               last == chain.calls[n]
               over == chain.result \in {"passed", "denied", "throw"}
           IN  /\ n <= Len(chain.checks)
               /\ \A i \in 1..n : chain.calls[i] = OwnCall(i)
               /\ \A i \in 1..(n - 1) : OwnPass(i)
               /\ chain.result = "denied"
                     => /\ ~OwnPass(n)
                        /\ last.status >= 400
                        /\ chain.status = last.status
                        /\ chain.message = last.message
                        /\ chain.required = last.required
               /\ chain.nextCalls = (IF chain.result = "passed" THEN 1 ELSE 0)
               /\ over => (chain.nextCalls = 1
                              <=> \A i \in 1..Len(chain.checks) : OwnPass(i))
               /\ chain.checks = <<>> => chain.result = "passed" /\ n = 0

\* ------------------------------------------------------------ role closure
\* every stored user, every token handed out, every registered refresh token
\* and the identity attached by the last strict authentication has an
\* enumerated role
RolesClosed ==
    /\ \A i \in 1..Len(users) : isValidRole(users[i].role)
    /\ \A t \in jar : /\ isValidRole(t.accessToken.role)
                       /\ isValidRole(t.refreshToken.role)
    /\ \A t \in refreshTokens : isValidRole(t.role)
    /\ (resp.op = "auth" /\ resp.next) => isValidRole(resp.user.role)

\* no step removes a user or changes the role of one
RolesKept ==
    /\ Len(users') >= Len(users)
    /\ \A i \in 1..Len(users) : users'[i].role = users[i].role

\* C25: under login, register, Google sign-in, refresh and strict
\* authentication, every user and every issued token carries an enumerated
\* role, an attached identity satisfies isValidRole, and no step changes the
\* role of an existing user.
C25_RolesClosed ==
    [][RolesClosed /\ RolesClosed' /\ RolesKept]_vars

\* C25 witness: an account created by register or Google sign-in presented its
\* access token and was authenticated with role user.
C25_Witness ==
    /\ Len(users) > Len(SeedUsers)
    /\ resp.op = "auth"
    /\ resp.next
    /\ resp.user.email = "new@lumanagi.com"
    /\ resp.user.role = "user"

\* ------------------------------------------------------------ middleware outcomes
\* C26: every call of an authorization gate ends either with one response and
\* no call of next, or with one call of next and no response, and never with
\* an exception that leaves the gate; a call suspended at its await has not
\* ended yet.
C26_ExactlyOneOutcome ==
    (authz.gate \in Gates /\ authz.result # "pending")
        => /\ authz.result # "throw"
           /\ \/ authz.status # 0 /\ authz.nextCalls = 0
              \/ authz.status = 0 /\ authz.nextCalls = 1

\* ------------------------------------------------------------ user store
\* C29: in every reachable state no two records of the user store share an
\* email, whatever the interleaving of register and Google sign-in requests.
C29_EmailsUnique ==
    \A i, j \in 1..Len(users) :
        users[i].email = users[j].email => i = j

\* ------------------------------------------------------------ rate limit claims
\* C24: an attempt that arrives after five failed attempts of its key in the
\* current 15-minute window is answered 429 whatever password it carries, and
\* successes are not counted: with every earlier attempt answered, an attempt
\* is limited only after five failures.
C24_LoginLimit ==
    route.tier = "login"
        => /\ route.failedBefore >= 5 => route.limited
           /\ (route.limited /\ route.pendingBefore = 0) => route.failedBefore >= 5

\* C27: whatever the interleaving of the requests of one key, the window of a
\* limiter that counts every attempt passes on at most max requests (so never
\* more than max plus one), and the request that arrives after max others of
\* the window, and every later one, is answered 429.
C27_AdmittedWithinMax ==
    /\ \A k \in DOMAIN buckets :
          k[1] = "register" => /\ buckets[k].admitted <= 3 + 1
                               /\ buckets[k].admitted <= 3
    /\ (route.tier = "register" /\ route.arrivedBefore >= 3)
          => route.limited

\* C27 witness: the fourth registration of a window arrived while an admitted
\* one of the same key was still hashing, and was answered 429.
C27_Witness ==
    /\ route.tier = "register"
    /\ route.arrivedBefore = 3
    /\ route.pendingBefore >= 1
    /\ route.limited
    /\ resp.status = 429

\* C28: on the entity list routes a request with a valid access token is
\* counted under the id of its verified identity, not under its IP-derived key.
C28_IdentityKeyed ==
    (route.tier = "authenticatedApi" /\ route.user # NoIdentity)
        => route.key = route.user.id

\* ------------------------------------------------------------ entity route claims
\* the names RESOURCE_PERMISSIONS has an entry for
MappedEntities ==
    {"contract-metrics", "token-analytics", "oracle-feeds", "alerts", "risk-assessments"}

\* C30: on the route of an entity without an entry in RESOURCE_PERMISSIONS the
\* business handler never runs and every request that reaches
\* requireResourceAccess with an identity, admin included, is answered 403
\* whatever its verb; the handler runs only for the five mapped entities.
C30_UnmappedEntitiesClosed ==
    route.entity # ""
        => /\ route.entity \notin DOMAIN RESOURCE_PERMISSIONS
                => /\ ~route.handler
                   /\ route.user # NoIdentity => route.status = 403
           /\ route.handler => route.entity \in MappedEntities

\* C30 as amended: on the route of an entity without an entry in
\* RESOURCE_PERMISSIONS the business handler never runs; every request that
\* reaches requireResourceAccess with an identity, admin included, is answered
\* 403, except a HEAD request, which is answered 405 before the resource is
\* looked up; the handler runs only for the five mapped entities.
C30_UnmappedEntitiesDenied ==
    route.entity # ""
        => /\ route.entity \notin DOMAIN RESOURCE_PERMISSIONS
                => /\ ~route.handler
                   /\ route.user # NoIdentity
                         => route.status = (IF route.method = "HEAD" THEN 405 ELSE 403)
           /\ route.handler => route.entity \in MappedEntities

\* C30 witness: an admin asked for the list of markets and was answered 403.
C30_Witness ==
    /\ route.entity = "markets"
    /\ route.method = "GET"
    /\ route.user.role = "admin"
    /\ route.status = 403
    /\ ~route.handler

====
